---- MODULE Spec2Model ----
(***************************************************************************)
(* Poly the Parrot: the check-in counter, its recovery scan and the batch  *)
(* deliveries of /poly checkin and /poly send, as a state machine.         *)
(*                                                                         *)
(* The repository holds two builds of the bot's entry file: the variable   *)
(* build says which one the process runs (1: the first, with the legacy    *)
(* "Check-in #N" pattern and no add-on step; 2: the second, with           *)
(* MAX_TEAM_NUMBER, the marker-only scan and buildCheckinAddOn).           *)
(*                                                                         *)
(* Every command runs as one handler; a handler advances one await at a    *)
(* time, so the actions below are the code between two awaits.             *)
(*                                                                         *)
(* A message's content is modelled by what the two patterns capture in it: *)
(* marker is the number CHECKIN_MARKER_REGEX captures, legacy the number   *)
(* /Check-in #(\d+)/i captures, Null when the pattern does not match.      *)
(* Team channels are named team-<n>; a channel is modelled by its n, and   *)
(* the guild's team channels have pairwise distinct names.                 *)
(***************************************************************************)
EXTENDS Integers, Sequences, FiniteSets, TLC

\* ---------------------------------------------------------------- bounds
\* Commands handled over the whole behaviour (handler identities).
MaxTriggers == 3
\* Process restarts over the whole behaviour.
MaxRestarts == 1
\* Commands that may be in flight (between arrival and return) together.
MaxInFlight == 2
\* Largest team number a guild channel may carry.
MaxTeamNo == 3
\* Team channels of the guilds the counter is explored with (Spec).
CounterTeams == 1
\* Commands handled when the large guilds are explored (SpecBatch).
BatchTriggers == 1
\* Largest check-in number in a scanned history (recovery-scan inputs).
MaxNum == 3
\* Longest scanned history (recovery-scan inputs).
MaxHist == 3
\* Messages per page of channel.messages.fetch: the source asks for 100, the
\* model for this many, so that histories of MaxHist messages span pages.
PageLimit == 2
\* Messages posted to the channel while fetchAllMessages is paging.
MaxPosts == 1
\* Longest decision text tried whole, in tokens.
MaxRaw == 4
\* Longest message, reason or draft put into a well-formed decision text.
MaxPart == 2
\* The cap of the fallback draft: 500 characters in the source, this many
\* tokens in the model, so that texts of MaxRaw tokens exceed it.
DraftCap == 2
\* The cap of the reason in the escalation notice: 140 characters in the
\* source, this many tokens in the model (room for the three dots).
ReasonCap == 4
\* Mentions the standby listener handles one after another.
MaxMentions == 2
\* Longest template rendered, in tokens.
MaxTemplate == 6
\* Longest text split, in characters.
MaxText == 7
\* Largest maximum chunk length tried (1900 in the source's only call).
MaxChunk == 3
\* Commands handled when invoker and channel vary (SpecControl).
ControlTriggers == 2
\* Most chunks a status report is split into.
MaxReport == 2
\* Largest team number of a guild channel when the guilds go beyond
\* MAX_TEAM_NUMBER (SpecGuild).
MaxGuildNo == 4

\* ------------------------------------------------------- program constants
\* let cachedCheckinNumber: number | null = null
Null == -1
\* const MAX_TEAM_NUMBER = 3 (build 2 only)
MAX_TEAM_NUMBER == 3

Builds == {1, 2}
Handlers == 1..MaxTriggers
Teams == 1..MaxTeamNo

\* client.user.id, and some other author
BotUser == "bot"
OtherUser == "member"

VARIABLES
  build,                \* which entry file the process runs
  guildTeams,           \* team numbers n with a text channel team-<n> in the guild
  controlHistory,       \* messages of the control channel, oldest first
  cachedCheckinNumber,  \* the process-wide counter, Null until recovered
  handler,              \* per command: its position (pc) and its local variables
  issued,               \* log: the check-in numbers issued, in order, with their lifetime
  completed,            \* log: the check-ins whose summary was posted, in order
  scans,                \* log: recovery scans started in this process lifetime
  recovered,            \* log: result of the first recovery scan of this lifetime
  epoch,                \* process restarts so far
  triggers,             \* commands the environment issues over the behaviour
  concurrency,          \* commands the environment lets be in flight together
  detectIn,             \* recovery-scan harness: the history scanned
  detectOut,            \* recovery-scan harness: the value returned
  channel,              \* a team channel's messages, oldest first
  fetch,                \* one buildTranscript call on channel: position and locals
  parseIn,              \* parser harness: the decision text and how it was made
  parseOut,             \* parser harness: the decision returned
  standby,              \* one runStandby call: position, locals, log of its posts
  renderIn,             \* template harness: the template and the values
  renderOut,            \* template harness: what renderTemplate did
  splitIn,              \* splitter harness: the text and the maximum length
  splitOut              \* splitter harness: the chunks returned

vars == <<build, guildTeams, controlHistory, cachedCheckinNumber, handler,
          issued, completed, scans, recovered, epoch, triggers, concurrency,
          detectIn, detectOut, channel, fetch, parseIn, parseOut, standby,
          renderIn, renderOut, splitIn, splitOut>>

\* What renderTemplate and splitForDiscord work on.
helperVars == <<renderIn, renderOut, splitIn, splitOut>>

\* What no step of a /poly command changes.
fixedVars == <<build, guildTeams, triggers, concurrency, detectIn, detectOut,
               channel, fetch, parseIn, parseOut, standby, helperVars>>

\* What the transcript builder works on.
transcriptVars == <<channel, fetch>>

\* What the decision parser works on.
parserVars == <<parseIn, parseOut>>

\* What the /poly commands and the recovery scan work on.
commandVars == <<build, guildTeams, controlHistory, cachedCheckinNumber,
                 handler, issued, completed, scans, recovered, epoch, triggers,
                 concurrency, detectIn, detectOut>>

\* ------------------------------------------------------------- helpers
Max2(a, b) == IF a >= b THEN a ELSE b

RECURSIVE SetMax(_)
SetMax(S) ==
  IF S = {} THEN 0
  ELSE LET x == CHOOSE y \in S : TRUE IN Max2(x, SetMax(S \ {x}))

Range(s) == {s[i] : i \in 1..Len(s)}

\* A control-channel message.
Msg(author, marker, legacy) ==
  [authorId |-> author, marker |-> marker, legacy |-> legacy]

\* The placeholder a deferred reply shows until editReply: no text.
DeferredMsg == Msg(BotUser, Null, Null)

\* ------------------------------------------------- getTeamChannels
RECURSIVE SortAscending(_)
SortAscending(S) ==
  IF S = {} THEN <<>>
  ELSE LET m == CHOOSE x \in S : \A y \in S : x <= y
       IN <<m>> \o SortAscending(S \ {m})

\* The text channels named team-<n>, in build 2 only those with
\* n <= MAX_TEAM_NUMBER, sorted by team number.
getTeamChannels(guild, b) ==
  SortAscending({n \in guild : b = 1 \/ n <= MAX_TEAM_NUMBER})

\* ------------------------------------------------- detectLastCheckinNumber
\* Mutant: the author check is missing, every message is scanned.
AnyAuthor(msg, botUserId) == TRUE

\* msg.authorId !== botUserId  ->  continue
IsBotAuthored(msg, botUserId) == msg.authorId = botUserId

\* Math.max(max, Number(match[1]))
KeepMax(max, n) == Max2(max, n)

\* The number one message contributes to the scan, Null when it is skipped:
\* the marker when CHECKIN_MARKER_REGEX matches; otherwise, in build 1 only,
\* the number of the legacy phrase.
ScannedNumber(msg, botUserId, b) ==
  IF ~IsBotAuthored(msg, botUserId) THEN Null
  ELSE IF msg.marker # Null THEN msg.marker
  ELSE IF b = 1 /\ msg.legacy # Null THEN msg.legacy
  ELSE Null

RECURSIVE DetectLoop(_, _, _, _, _)
DetectLoop(history, i, max, botUserId, b) ==
  IF i > Len(history) THEN max
  ELSE LET n == ScannedNumber(history[i], botUserId, b)
       IN DetectLoop(history, i + 1,
                     IF n = Null THEN max ELSE KeepMax(max, n), botUserId, b)

detectLastCheckinNumber(history, botUserId, b) ==
  DetectLoop(history, 1, 0, botUserId, b)

\* ------------------------------------------------- summaries
NoSummary == [kind |-> "none"]
\* "No channels matching `team-*` were found."
NoTeamsReply == [kind |-> "noTeams"]
\* "Target channel `<target>` was not found."
NotFoundReply == [kind |-> "notFound"]

\* Check-in #<n> sent. / Delivered: <sent>/<total> / Failed: <names> | none
CheckinSummary(n, sentNames, failedNames, targets) ==
  [kind |-> "checkin", number |-> n, delivered |-> Len(sentNames),
   total |-> Len(targets), failedNames |-> failedNames]

\* Sent message to <sent>/<total> channels. / Delivered: <names> / Failed: <names>
SendSummary(sentNames, failedNames, targets) ==
  [kind |-> "send", delivered |-> Len(sentNames), total |-> Len(targets),
   deliveredNames |-> sentNames, failedNames |-> failedNames]

\* The control-channel message a reply becomes: only the check-in summary
\* carries text a scan pattern matches ("Check-in #<n> sent.").
ReplyMsg(s) ==
  Msg(BotUser, Null, IF s.kind = "checkin" THEN s.number ELSE Null)

\* ------------------------------------------------- commands
NoCmd == [sub |-> "none"]
\* /poly checkin without the option ask, and with it
CheckinCmd == [sub |-> "checkin", ask |-> FALSE]
CheckinAskCmd == [sub |-> "checkin", ask |-> TRUE]
StatusCmd == [sub |-> "status"]
SendCmd(all, team) == [sub |-> "send", all |-> all, team |-> team]
Commands ==
  {CheckinCmd} \cup {SendCmd(TRUE, 0)} \cup {SendCmd(FALSE, n) : n \in Teams}

InFlight ==
  {"deferred", "scan", "scanned", "addon", "send", "reply", "statusPrompt",
   "statusAsk", "statusReply", "statusFollowUp"}
Ended == {"done", "refused", "failed", "dead"}

\* The channels the delivery loop runs over: teamChannels in runCheckin,
\* selectedChannels in runSend.
Targets(r) ==
  IF r.cmd.sub = "send" THEN r.selectedChannels ELSE r.teamChannels

\* Who issued a command and where: interaction.user.id, interaction.channelId.
NoInvoker == [user |-> "nobody", channelId |-> "nowhere"]

\* A handler that has not started: the locals of runCheckin / runSend /
\* runStatus, who invoked it, and the logs of its send attempts (outcome),
\* of its calls of the decision service (asked) and of the channel
\* histories it read for transcripts (histories).
NoPrompt == [kind |-> "none"]

Idle ==
  [pc |-> "idle", cmd |-> NoCmd, teamChannels |-> <<>>,
   selectedChannels |-> <<>>, idx |-> 0, sent |-> <<>>, failed |-> <<>>,
   checkinNumber |-> Null, scanResult |-> Null, replyMsg |-> 0,
   summary |-> NoSummary, outcome |-> <<>>, by |-> NoInvoker,
   info |-> "unread", chunks |-> 0, asked |-> 0, histories |-> 0,
   prompt |-> NoPrompt, control |-> "unread"]

\* A handler that has returned or thrown: its locals are gone.
EndedAs(how) == [Idle EXCEPT !.pc = how]

\* ------------------------------------------------- initial state
\* Control-channel histories a process may start with: an empty channel; the
\* summary "Check-in #1 sent." of an earlier lifetime; a bot message that
\* carries the marker #2 followed by a member's message carrying #3.
InitHistories ==
  { <<>>,
    <<Msg(BotUser, Null, 1)>>,
    <<Msg(BotUser, 2, Null), Msg(OtherUser, 3, Null)>> }

\* No buildTranscript call is running.
NoFetch ==
  [pc |-> "idle", before |-> Null, all |-> <<>>, snapshot |-> <<>>,
   posts |-> 0, result |-> Null]

\* No decision text is being parsed.
NoText == [form |-> "none", text |-> <<>>]
NoDecision == [action |-> "none"]

\* No template is being rendered, no text is being split.
NoRender == [form |-> "none", template |-> <<>>, values |-> <<>>]
NoRendered == [state |-> "none"]
NoSplit == [text |-> <<>>, maxLen |-> 0]
NoChunks == [state |-> "none", chunks |-> <<>>, hard |-> {}]

QuietHelpers ==
  /\ renderIn = NoRender
  /\ renderOut = NoRendered
  /\ splitIn = NoSplit
  /\ splitOut = NoChunks

\* No mention is being handled: the message, the locals of runStandby, the
\* log of its posts and of its calls of askOpenAI, the number of the
\* listener's invocation, and whether an earlier invocation failed at the
\* service.
NoMessage == [author |-> "nobody"]

NoStandby ==
  [pc |-> "idle", message |-> NoMessage, hasQuestion |-> FALSE, rawDecision |-> <<>>,
   decision |-> NoDecision, control |-> "unknown", posts |-> <<>>,
   sendFailed |-> FALSE, configBad |-> FALSE, asked |-> 0,
   serviceFailed |-> FALSE, invocation |-> 1, failedBefore |-> FALSE,
   info |-> "unread"]

InitProcess ==
  /\ build \in Builds
  /\ standby = NoStandby
  /\ QuietHelpers
  /\ channel = <<>>
  /\ fetch = NoFetch
  /\ parseIn = NoText
  /\ parseOut = NoDecision
  /\ cachedCheckinNumber = Null
  /\ handler = [h \in Handlers |-> Idle]
  /\ issued = <<>>
  /\ completed = <<>>
  /\ scans = 0
  /\ recovered = Null
  /\ epoch = 0

\* The counter under concurrent commands: all the commands, small guilds.
Init ==
  /\ InitProcess
  /\ guildTeams \in {1..k : k \in 0..CounterTeams}
  /\ controlHistory \in InitHistories
  /\ triggers = MaxTriggers
  /\ concurrency = MaxInFlight
  /\ detectIn = <<>>
  /\ detectOut = Null

\* Commands one after another: each returns before the next arrives.
InitSerial ==
  /\ InitProcess
  /\ guildTeams \in {1..k : k \in 0..CounterTeams}
  /\ controlHistory \in InitHistories
  /\ triggers = MaxTriggers
  /\ concurrency = 1
  /\ detectIn = <<>>
  /\ detectOut = Null

\* The batch deliveries: every guild over Teams, fewer commands.
InitBatch ==
  /\ InitProcess
  /\ guildTeams \in SUBSET Teams
  /\ controlHistory = <<>>
  /\ triggers = BatchTriggers
  /\ concurrency = MaxInFlight
  /\ detectIn = <<>>
  /\ detectOut = Null

\* ------------------------------------------------- runCheckin: the counter
\* Mutant: the cached value is not used, every check-in scans again.
AlwaysRecover(c) == TRUE

\* if (cachedCheckinNumber === null)
NeedsRecovery(c) == c = Null

\* cachedCheckinNumber += 1
Increment(n) == n + 1

\* renderTemplate(promptConfig.checkinTemplate, ...) and the first send of the
\* loop; the template throws when a placeholder stays unresolved.
Rendered(r, templateOk) ==
  IF templateOk THEN [r EXCEPT !.pc = "send", !.idx = 1]
  ELSE EndedAs("failed")

\* const checkinNumber = cachedCheckinNumber, then build 2 awaits
\* buildCheckinAddOn while build 1 renders and sends at once.
Numbered(r, n, templateOk) ==
  IF build = 2 THEN [r EXCEPT !.checkinNumber = n, !.pc = "addon"]
  ELSE Rendered([r EXCEPT !.checkinNumber = n], templateOk)

\* ------------------------------------------------- handlePolyCommand
\* A command arrives; ensureAuthorized refuses it, or the sub-command starts
\* and awaits interaction.deferReply.
Command(h, c, authorized) ==
  /\ handler[h].pc = "idle"
  /\ h <= triggers
  /\ IF h = 1 THEN TRUE ELSE handler[h - 1].pc # "idle"
  /\ Cardinality({g \in Handlers : handler[g].pc \in InFlight}) < concurrency
  /\ handler' = [handler EXCEPT ![h] =
        IF authorized THEN [Idle EXCEPT !.pc = "deferred", !.cmd = c]
        ELSE EndedAs("refused")]
  /\ UNCHANGED <<fixedVars, controlHistory, cachedCheckinNumber,
                 issued, completed, scans, recovered, epoch>>

\* runCheckin from deferReply to the counter: the guild, the control channel
\* and the team channels are fetched (envOk: none of them throws), then the
\* counter is recovered or incremented.
CheckinFetch(h, envOk, templateOk) ==
  LET r  == handler[h]
      tc == getTeamChannels(guildTeams, build)
      r1 == [r EXCEPT !.teamChannels = tc,
                      !.replyMsg = Len(controlHistory) + 1]
      n  == Increment(cachedCheckinNumber)
  IN /\ r.pc = "deferred"
     /\ r.cmd.sub = "checkin"
     /\ controlHistory' = Append(controlHistory, DeferredMsg)
     /\ IF ~envOk THEN
          /\ handler' = [handler EXCEPT ![h] = EndedAs("failed")]
          /\ UNCHANGED <<cachedCheckinNumber, issued, completed, scans>>
        ELSE IF tc = <<>> THEN
          /\ handler' = [handler EXCEPT ![h] =
                [r1 EXCEPT !.pc = "reply", !.summary = NoTeamsReply]]
          /\ UNCHANGED <<cachedCheckinNumber, issued, completed, scans>>
        ELSE IF NeedsRecovery(cachedCheckinNumber) THEN
          /\ handler' = [handler EXCEPT ![h] = [r1 EXCEPT !.pc = "scan"]]
          /\ scans' = scans + 1
          /\ UNCHANGED <<cachedCheckinNumber, issued, completed>>
        ELSE
          /\ cachedCheckinNumber' = n
          /\ handler' = [handler EXCEPT ![h] = Numbered(r1, n, templateOk)]
          /\ issued' = Append(issued, [n |-> n, epoch |-> epoch, tried |-> FALSE])
          /\ UNCHANGED scans
     /\ UNCHANGED <<fixedVars, completed, recovered, epoch>>

\* detectLastCheckinNumber reads the control channel's history.
ScanRead(h) ==
  LET r   == handler[h]
      max == detectLastCheckinNumber(controlHistory, BotUser, build)
  IN /\ r.pc = "scan"
     /\ handler' = [handler EXCEPT ![h] =
           [r EXCEPT !.pc = "scanned", !.scanResult = max]]
     /\ recovered' = IF recovered = Null THEN max ELSE recovered
     /\ UNCHANGED <<fixedVars, controlHistory, cachedCheckinNumber,
                    issued, completed, scans, epoch>>

\* The scan's await resumes: cachedCheckinNumber = <result>, then += 1.
ScanResume(h, templateOk) ==
  LET r == handler[h]
      n == Increment(r.scanResult)
  IN /\ r.pc = "scanned"
     /\ cachedCheckinNumber' = n
     /\ handler' = [handler EXCEPT ![h] = Numbered(r, n, templateOk)]
     /\ issued' = Append(issued, [n |-> n, epoch |-> epoch, tried |-> FALSE])
     /\ UNCHANGED <<fixedVars, controlHistory, completed, scans, recovered,
                    epoch>>

\* Build 2: buildCheckinAddOn resolves, the template is rendered and the
\* loop's first send is issued.
AddOn(h, templateOk) ==
  LET r == handler[h]
  IN /\ r.pc = "addon"
     /\ handler' = [handler EXCEPT ![h] =
           Rendered([r EXCEPT !.asked = IF r.cmd.ask THEN @ + 1 ELSE @],
                    templateOk)]
     /\ UNCHANGED <<fixedVars, controlHistory, cachedCheckinNumber,
                    issued, completed, scans, recovered, epoch>>

\* ------------------------------------------------- runSend
\* target === "all" ? teamChannels : teamChannels.filter((c) => c.name === target)
SelectChannels(tc, c) ==
  IF c.all THEN tc
  ELSE LET IsTarget(n) == n = c.team IN SelectSeq(tc, IsTarget)

\* runSend from deferReply to the loop's first send.
SendFetch(h, envOk) ==
  LET r   == handler[h]
      tc  == getTeamChannels(guildTeams, build)
      sel == SelectChannels(tc, r.cmd)
      r1  == [r EXCEPT !.teamChannels = tc,
                       !.replyMsg = Len(controlHistory) + 1]
  IN /\ r.pc = "deferred"
     /\ r.cmd.sub = "send"
     /\ controlHistory' = Append(controlHistory, DeferredMsg)
     /\ handler' = [handler EXCEPT ![h] =
           IF ~envOk THEN EndedAs("failed")
           ELSE IF tc = <<>>
             THEN [r1 EXCEPT !.pc = "reply", !.summary = NoTeamsReply]
           ELSE IF sel = <<>>
             THEN [r1 EXCEPT !.pc = "reply", !.summary = NotFoundReply]
           ELSE [r1 EXCEPT !.selectedChannels = sel, !.pc = "send", !.idx = 1]]
     /\ UNCHANGED <<fixedVars, cachedCheckinNumber, issued, completed, scans,
                    recovered, epoch>>

\* ------------------------------------------------- the delivery loop
\* Mutant: the catch block records nothing, a failed channel is in no list.
PushedNoCatch(r, ch, ok) ==
  [r EXCEPT !.sent = IF ok THEN Append(@, ch) ELSE @]

\* try { await sendToTeamChannel(...); sent.push(channel.name) }
\* catch { failed.push(channel.name) }
Pushed(r, ch, ok) ==
  [r EXCEPT !.sent = IF ok THEN Append(@, ch) ELSE @,
            !.failed = IF ok THEN @ ELSE Append(@, ch)]

\* Mutant: the summary reports every targeted channel as delivered.
BuildSummaryAllDelivered(r) ==
  IF r.cmd.sub = "checkin"
    THEN CheckinSummary(r.checkinNumber, Targets(r), r.failed, r.teamChannels)
    ELSE SendSummary(Targets(r), r.failed, r.selectedChannels)

\* The summary built when the loop is over.
BuildSummary(r) ==
  IF r.cmd.sub = "checkin"
    THEN CheckinSummary(r.checkinNumber, r.sent, r.failed, r.teamChannels)
    ELSE SendSummary(r.sent, r.failed, r.selectedChannels)

\* Mutant: no try/catch around the send, the first failure leaves the loop.
AdvancedStopOnFailure(r, ok) ==
  IF ok /\ r.idx < Len(Targets(r)) THEN [r EXCEPT !.idx = @ + 1]
  ELSE [r EXCEPT !.pc = "reply", !.summary = BuildSummary(r)]

\* for (const channel of ...): after an attempt the loop moves to the next
\* channel; after the last one the summary goes to interaction.editReply.
Advanced(r, ok) ==
  IF r.idx < Len(Targets(r)) THEN [r EXCEPT !.idx = @ + 1]
  ELSE [r EXCEPT !.pc = "reply", !.summary = BuildSummary(r)]

\* The log of issued numbers with the latest entry of number n in this
\* process lifetime marked: its check-in has reached the delivery loop.
MarkTried(log, n) ==
  LET hits == {k \in 1..Len(log) : log[k].n = n /\ log[k].epoch = epoch}
  IN IF hits = {} THEN log
     ELSE LET k == CHOOSE k \in hits : \A j \in hits : j <= k
          IN [log EXCEPT ![k].tried = TRUE]

\* The send in flight resolves (ok) or rejects.
Deliver(h, ok) ==
  LET r  == handler[h]
      ch == Targets(r)[r.idx]
      r1 == [r EXCEPT !.outcome = Append(@, [channel |-> ch, ok |-> ok])]
  IN /\ r.pc = "send"
     /\ handler' = [handler EXCEPT ![h] = Advanced(Pushed(r1, ch, ok), ok)]
     /\ issued' = IF r.cmd.sub = "checkin"
                    THEN MarkTried(issued, r.checkinNumber) ELSE issued
     /\ UNCHANGED <<fixedVars, controlHistory, cachedCheckinNumber,
                    completed, scans, recovered, epoch>>

\* interaction.editReply resolves: the deferred reply in the control channel
\* now shows the text; or it rejects and the command ends in the error path.
Reply(h, ok) ==
  LET r == handler[h]
  IN /\ r.pc = "reply"
     /\ IF ok
          THEN /\ controlHistory' =
                    [controlHistory EXCEPT ![r.replyMsg] = ReplyMsg(r.summary)]
               /\ handler' = [handler EXCEPT ![h] = EndedAs("done")]
               /\ completed' =
                    IF r.summary.kind = "checkin"
                      THEN Append(completed,
                                  [n |-> r.summary.number, epoch |-> epoch])
                      ELSE completed
          ELSE /\ handler' = [handler EXCEPT ![h] = EndedAs("failed")]
               /\ UNCHANGED <<controlHistory, completed>>
     /\ UNCHANGED <<fixedVars, cachedCheckinNumber, issued, scans,
                    recovered, epoch>>

\* ------------------------------------------------- process restart
\* The process stops and starts again: module state is initialised anew
\* (cachedCheckinNumber = null) and the handlers in flight are gone.
Restart ==
  /\ epoch < MaxRestarts
  /\ epoch' = epoch + 1
  /\ cachedCheckinNumber' = Null
  /\ handler' = [h \in Handlers |->
        IF handler[h].pc \in InFlight THEN EndedAs("dead") ELSE handler[h]]
  /\ scans' = 0
  /\ recovered' = Null
  /\ UNCHANGED <<fixedVars, controlHistory, issued, completed>>

\* ------------------------------------------------- specification
CommandStep == \E h \in Handlers, c \in Commands, a \in BOOLEAN : Command(h, c, a)
CheckinFetchStep == \E h \in Handlers, e \in BOOLEAN, t \in BOOLEAN : CheckinFetch(h, e, t)
ScanReadStep == \E h \in Handlers : ScanRead(h)
ScanResumeStep == \E h \in Handlers, t \in BOOLEAN : ScanResume(h, t)
AddOnStep == \E h \in Handlers, t \in BOOLEAN : AddOn(h, t)
SendFetchStep == \E h \in Handlers, e \in BOOLEAN : SendFetch(h, e)
DeliverStep == \E h \in Handlers, ok \in BOOLEAN : Deliver(h, ok)
ReplyStep == \E h \in Handlers, ok \in BOOLEAN : Reply(h, ok)

Next ==
  \/ CommandStep
  \/ CheckinFetchStep
  \/ ScanReadStep
  \/ ScanResumeStep
  \/ AddOnStep
  \/ SendFetchStep
  \/ DeliverStep
  \/ ReplyStep
  \/ Restart

Spec == Init /\ [][Next]_vars

SpecSerial == InitSerial /\ [][Next]_vars

SpecBatch == InitBatch /\ [][Next]_vars

\* One command in guilds whose team channels are numbered up to MaxGuildNo,
\* which is more than MAX_TEAM_NUMBER.
InitGuild ==
  /\ InitProcess
  /\ guildTeams \in SUBSET (1..MaxGuildNo)
  /\ controlHistory = <<>>
  /\ triggers = BatchTriggers
  /\ concurrency = MaxInFlight
  /\ detectIn = <<>>
  /\ detectOut = Null

SpecGuild == InitGuild /\ [][Next]_vars

\* ------------------------------------------------- ensureAuthorized
\* config.OWNER_USER_ID and config.POLY_CONTROL_CHANNEL_ID
OwnerUser == "owner"
ControlChannelId == "control"

\* Who may issue a command, and where.
Invokers ==
  [user : {OwnerUser, OtherUser}, channelId : {ControlChannelId, "elsewhere"}]

NotOwnerError == "Only the bot owner can run Poly control commands."
NotControlError == "Run this command in the Poly control channel only."
Authorized == "null"

\* Mutant: the channel of the command is not looked at.
OwnerAnywhere(i) == IF i.user # OwnerUser THEN NotOwnerError ELSE Authorized

ensureAuthorized(i) ==
  IF i.user # OwnerUser THEN NotOwnerError
  ELSE IF i.channelId # ControlChannelId THEN NotControlError
  ELSE Authorized

\* A handler that replied with the refusal (ephemeral: to the invoker alone,
\* not a message of the channel) and returned.
Refused(i, authError) ==
  [Idle EXCEPT !.pc = "refused", !.by = i,
               !.summary = [kind |-> "refusal", text |-> authError]]

\* The commands of the guild: /poly checkin with or without ask, /poly
\* status, /poly send to all or to one team.
ControlCommands == Commands \cup {CheckinAskCmd, StatusCmd}

\* handlePolyCommand: ensureAuthorized, then the refusal or the sub-command,
\* which awaits interaction.deferReply.
Interaction(h, c, i) ==
  /\ handler[h].pc = "idle"
  /\ h <= triggers
  /\ IF h = 1 THEN TRUE ELSE handler[h - 1].pc # "idle"
  /\ Cardinality({g \in Handlers : handler[g].pc \in InFlight}) < concurrency
  /\ handler' = [handler EXCEPT ![h] =
        IF ensureAuthorized(i) = Authorized
          THEN [Idle EXCEPT !.pc = "deferred", !.cmd = c, !.by = i]
          ELSE Refused(i, ensureAuthorized(i))]
  /\ UNCHANGED <<fixedVars, controlHistory, cachedCheckinNumber,
                 issued, completed, scans, recovered, epoch>>

\* ------------------------------------------------- runStatus
\* knowledge/hackathon-info.md: not there, empty, still holding the
\* placeholder, or filled in.
InfoFiles == {"missing", "empty", "placeholder", "filled"}

\* loadHackathonInfo: ready, and the reason when not.
loadHackathonInfo(file) ==
  IF file = "missing"
    THEN [ready |-> FALSE, reason |-> "Missing required file. Create it."]
  ELSE IF file \in {"empty", "placeholder"}
    THEN [ready |-> FALSE, reason |-> "Fill in the file first."]
  ELSE [ready |-> TRUE, reason |-> "undefined"]

\* interaction.editReply(info.reason ?? "Hackathon info doc is required.")
NeedInfoReply(reason) == [kind |-> "needInfo", text |-> reason]

\* The message a report chunk becomes in the control channel.
ReportMsg == Msg(BotUser, Null, Null)

\* runStatus from deferReply to the info document: getGuildOrThrow (envOk:
\* it does not throw) and loadHackathonInfo.
StatusFetch(h, envOk, file) ==
  LET r    == handler[h]
      info == loadHackathonInfo(file)
      r1   == [r EXCEPT !.replyMsg = Len(controlHistory) + 1, !.info = file]
  IN /\ r.pc = "deferred"
     /\ r.cmd.sub = "status"
     /\ controlHistory' = Append(controlHistory, DeferredMsg)
     /\ handler' = [handler EXCEPT ![h] =
           IF ~envOk THEN EndedAs("failed")
           ELSE IF ~info.ready
             THEN [r1 EXCEPT !.pc = "reply",
                             !.summary = NeedInfoReply(info.reason)]
           ELSE [r1 EXCEPT !.pc = "statusPrompt"]]
     /\ UNCHANGED <<fixedVars, cachedCheckinNumber, issued, completed, scans,
                    recovered, epoch>>

\* renderTranscriptForPrompt: the header's four lines, then the message
\* lines or, when there are none, the fixed line. Text is a sequence of
\* lines, a line a record; channelName is [team |-> n] or [name |-> "control"].
TextLine(s) == [line |-> s]
ChannelLine(channelName) == [line |-> "Channel:", of |-> channelName]
NoMessagesLine == TextLine("[No messages in this channel]")
renderTranscriptForPrompt(channelName, messages) ==
  << ChannelLine(channelName),
     TextLine("Latest check-in number: none found"),
     TextLine("Latest check-in timestamp: none found"),
     TextLine("Messages:") >>
    \o (IF messages = <<>> THEN <<NoMessagesLine>> ELSE messages)

\* teamTranscripts.join("\n\n---\n\n")
Separator == <<TextLine(""), TextLine("---"), TextLine("")>>
RECURSIVE Join(_, _)
Join(texts, sep) ==
  IF texts = <<>> THEN <<>>
  ELSE IF Len(texts) = 1 THEN texts[1]
  ELSE texts[1] \o sep \o Join(Tail(texts), sep)

\* Mutant: the control block is passed as it is.
Unguarded(block, sentinel) == block

\* controlBlock || "[No control channel transcript found]"
OrElse(block, sentinel) == IF block = <<>> THEN sentinel ELSE block

NoControlTranscript == <<TextLine("[No control channel transcript found]")>>
NoTeamsPrompt == [kind |-> "fixed", text |-> "No team channels found."]

\* What guild.channels.fetch of the control channel gives buildStatusPrompt:
\* nothing, a channel of another type, a text channel without messages or
\* one with a message.
StatusControls == {"none", "wrongType", "quiet", "busy"}

\* The messages of a channel's transcript: none, or one line.
TranscriptLines(busy) ==
  IF busy THEN <<TextLine("[time] author: content")>> ELSE <<>>

\* buildStatusPrompt: the fixed sentence when there is no team channel; else
\* the values the template's three slots are filled with.
buildStatusPrompt(teamChannels, control, busy) ==
  IF teamChannels = <<>> THEN NoTeamsPrompt
  ELSE LET teamTranscripts ==
             [k \in 1..Len(teamChannels) |->
                renderTranscriptForPrompt([team |-> teamChannels[k]],
                  TranscriptLines(teamChannels[k] \in busy))]
           controlBlock ==
             IF control \in {"quiet", "busy"}
               THEN renderTranscriptForPrompt([name |-> "control"],
                      TranscriptLines(control = "busy"))
               ELSE <<>>
       IN [kind |-> "rendered",
           info_doc |-> "infoDoc",
           team_transcripts |-> Join(teamTranscripts, Separator),
           control_transcript |-> OrElse(controlBlock, NoControlTranscript)]

\* loadPromptConfig, buildStatusPrompt (a transcript per team channel and,
\* when the control channel is a text channel, one of it) and the two
\* renderTemplate calls; ok: none of them throws. Then askOpenAI is called.
StatusPrompt(h, ok, control, busy) ==
  LET r  == handler[h]
      tc == getTeamChannels(guildTeams, build)
  IN /\ r.pc = "statusPrompt"
     /\ handler' = [handler EXCEPT ![h] =
           IF ~ok THEN EndedAs("failed")
           ELSE [r EXCEPT
                   !.pc = "statusAsk",
                   !.teamChannels = tc,
                   !.control = IF tc = <<>> THEN @ ELSE control,
                   !.prompt = buildStatusPrompt(tc, control, busy),
                   !.histories =
                     IF tc = <<>> THEN 0
                     ELSE Len(tc) + (IF control \in {"quiet", "busy"}
                                       THEN 1 ELSE 0)]]
     /\ UNCHANGED <<fixedVars, controlHistory, cachedCheckinNumber,
                    issued, completed, scans, recovered, epoch>>

\* await askOpenAI(prompt, statusSystemInstructions), then splitForDiscord:
\* the report comes in n chunks, or the call throws.
StatusAsk(h, serviceOk, n) ==
  LET r == handler[h]
  IN /\ r.pc = "statusAsk"
     /\ handler' = [handler EXCEPT ![h] =
           IF ~serviceOk THEN EndedAs("failed")
           ELSE [r EXCEPT !.pc = "statusReply", !.asked = @ + 1,
                          !.chunks = n, !.idx = 1]]
     /\ UNCHANGED <<fixedVars, controlHistory, cachedCheckinNumber,
                    issued, completed, scans, recovered, epoch>>

\* await interaction.editReply(chunks[0])
StatusReply(h, ok) ==
  LET r == handler[h]
  IN /\ r.pc = "statusReply"
     /\ IF ok
          THEN /\ controlHistory' =
                    [controlHistory EXCEPT ![r.replyMsg] = ReportMsg]
               /\ handler' = [handler EXCEPT ![h] =
                     IF r.chunks > 1
                       THEN [r EXCEPT !.pc = "statusFollowUp", !.idx = 2]
                       ELSE EndedAs("done")]
          ELSE /\ handler' = [handler EXCEPT ![h] = EndedAs("failed")]
               /\ UNCHANGED controlHistory
     /\ UNCHANGED <<fixedVars, cachedCheckinNumber, issued, completed, scans,
                    recovered, epoch>>

\* await interaction.followUp(chunks[i])
StatusFollowUp(h, ok) ==
  LET r == handler[h]
  IN /\ r.pc = "statusFollowUp"
     /\ IF ok
          THEN /\ controlHistory' = Append(controlHistory, ReportMsg)
               /\ handler' = [handler EXCEPT ![h] =
                     IF r.idx < r.chunks THEN [r EXCEPT !.idx = @ + 1]
                     ELSE EndedAs("done")]
          ELSE /\ handler' = [handler EXCEPT ![h] = EndedAs("failed")]
               /\ UNCHANGED controlHistory
     /\ UNCHANGED <<fixedVars, cachedCheckinNumber, issued, completed, scans,
                    recovered, epoch>>

\* The three commands as the guild may issue them: by anyone, anywhere.
InitControl ==
  /\ InitProcess
  /\ guildTeams \in {1..k : k \in 0..CounterTeams}
  /\ controlHistory = <<>>
  /\ triggers = ControlTriggers
  /\ concurrency = 2
  /\ detectIn = <<>>
  /\ detectOut = Null

InteractionStep ==
  \E h \in Handlers, c \in ControlCommands, i \in Invokers : Interaction(h, c, i)
StatusFetchStep ==
  \E h \in Handlers, e \in BOOLEAN, f \in InfoFiles : StatusFetch(h, e, f)
\* Among the other commands the channels read for the status are silent.
StatusPromptStep ==
  \E h \in Handlers, ok \in BOOLEAN, c \in {"none", "quiet"} :
    StatusPrompt(h, ok, c, {})
StatusAskStep ==
  \E h \in Handlers, v \in BOOLEAN, n \in 1..MaxReport : StatusAsk(h, v, n)
StatusReplyStep == \E h \in Handlers, ok \in BOOLEAN : StatusReply(h, ok)
StatusFollowUpStep == \E h \in Handlers, ok \in BOOLEAN : StatusFollowUp(h, ok)

NextControl ==
  \/ InteractionStep
  \/ CheckinFetchStep
  \/ ScanReadStep
  \/ ScanResumeStep
  \/ AddOnStep
  \/ SendFetchStep
  \/ DeliverStep
  \/ ReplyStep
  \/ StatusFetchStep
  \/ StatusPromptStep
  \/ StatusAskStep
  \/ StatusReplyStep
  \/ StatusFollowUpStep

SpecControl == InitControl /\ [][NextControl]_vars

\* /poly status alone, in every guild of up to MaxTeamNo team channels, with
\* every control channel and every choice of silent channels.
InitStatus ==
  /\ InitProcess
  /\ guildTeams \in SUBSET Teams
  /\ controlHistory = <<>>
  /\ triggers = 1
  /\ concurrency = 1
  /\ detectIn = <<>>
  /\ detectOut = Null

StatusInteractionStep ==
  \E h \in Handlers, i \in Invokers : Interaction(h, StatusCmd, i)
StatusRequestStep ==
  \E h \in Handlers, ok \in BOOLEAN, c \in StatusControls,
     busy \in SUBSET Teams : StatusPrompt(h, ok, c, busy)

NextStatus ==
  \/ StatusInteractionStep
  \/ StatusFetchStep
  \/ StatusRequestStep
  \/ StatusAskStep
  \/ StatusReplyStep
  \/ StatusFollowUpStep
  \/ ReplyStep

SpecStatus == InitStatus /\ [][NextStatus]_vars

\* ------------------------------------------------- the recovery scan alone
\* What one message's text may hold: nothing a pattern matches, a marker, the
\* legacy phrase, or a marker together with the legacy phrase of number MaxNum.
Contents ==
  {<<Null, Null>>}
    \cup {<<n, Null>> : n \in 1..MaxNum}
    \cup {<<Null, n>> : n \in 1..MaxNum}
    \cup {<<n, MaxNum>> : n \in 1..MaxNum}

ScanMessages ==
  {Msg(a, c[1], c[2]) : a \in {BotUser, OtherUser}, c \in Contents}

ScanHistories ==
  UNION {[1..len -> ScanMessages] : len \in 0..MaxHist}

InitDetect ==
  /\ InitProcess
  /\ guildTeams = {}
  /\ controlHistory = <<>>
  /\ triggers = 0
  /\ concurrency = 0
  /\ detectIn \in ScanHistories
  /\ detectOut = Null

\* detectLastCheckinNumber(controlChannel, client.user.id) on detectIn.
Detect ==
  /\ detectOut = Null
  /\ detectOut' = detectLastCheckinNumber(detectIn, BotUser, build)
  /\ UNCHANGED <<build, guildTeams, controlHistory, cachedCheckinNumber,
                 handler, issued, completed, scans, recovered, epoch, triggers,
                 concurrency, detectIn, transcriptVars, parserVars, standby,
                 helperVars>>

SpecDetect == InitDetect /\ [][Detect]_vars

\* ------------------------------------------------- transcript.ts
\* A TranscriptMessage: id (snowflake: later messages have larger ids),
\* authorId, createdAt, and of the cleaned content the number the marker
\* pattern captures (Null when the content holds no marker).
TMsg(id, author, createdAt, marker) ==
  [id |-> id, authorId |-> author, createdAt |-> createdAt, marker |-> marker]

\* Author and marker of a message: the bot without a marker, the bot with
\* the marker #1 or #MaxNum, a member quoting the marker #MaxNum.
TranscriptContents ==
  {<<BotUser, Null>>, <<BotUser, 1>>, <<BotUser, MaxNum>>, <<OtherUser, MaxNum>>}

\* Creation times of len messages in id order: from 1 on, each message at
\* the time of the one before it or one tick later.
CreationTimes(len) ==
  {t \in [1..len -> 1..len] :
     /\ len > 0 => t[1] = 1
     /\ \A i \in 1..(len - 1) : t[i + 1] - t[i] \in {0, 1}}

\* The channels a scan may find: up to MaxHist messages, oldest first.
TranscriptChannels ==
  UNION {{[i \in 1..len |-> TMsg(i, c[i][1], t[i], c[i][2])] :
            c \in [1..len -> TranscriptContents], t \in CreationTimes(len)} :
         len \in 0..MaxHist}

\* The same channels with members' plain messages only: what the paging
\* loop does depends on ids and times alone.
PagingChannels ==
  UNION {{[i \in 1..len |-> TMsg(i, OtherUser, t[i], Null)] :
            t \in CreationTimes(len)} :
         len \in 0..MaxHist}

\* The messages of the channel strictly older than the cursor, oldest first.
OlderThan(ch, before) ==
  LET IsOlder(m) == before = Null \/ m.id < before IN SelectSeq(ch, IsOlder)

\* channel.messages.fetch({limit, before}): the k newest of them, newest first.
Page(ch, before, k) ==
  LET older == OlderThan(ch, before)
  IN [i \in 1..k |-> older[Len(older) + 1 - i]]

\* Mutant: the cursor is the newest message of the page.
FirstKey(page) == page[1].id

\* page.lastKey(): the id of the oldest message of the page.
LastKey(page) == page[Len(page)].id

\* Where a stable ascending sort puts all[i]: after the messages created
\* earlier and after those of the same time that precede it in all.
SortedPosition(all, i) ==
  1 + Cardinality({j \in 1..Len(all) :
                     \/ all[j].createdAt < all[i].createdAt
                     \/ all[j].createdAt = all[i].createdAt /\ j < i})

\* Mutant: the messages stay in the order the pages delivered them.
Unsorted(all) == all

\* all.sort((a, b) => a.createdAt - b.createdAt): stable, ascending.
SortByCreatedAt(all) ==
  [p \in 1..Len(all) |->
     all[CHOOSE i \in 1..Len(all) : SortedPosition(all, i) = p]]

\* The loop of buildTranscript: every bot message with a marker overwrites
\* the latest check-in number and timestamp.
RECURSIVE LatestLoop(_, _, _, _)
LatestLoop(messages, i, botUserId, latest) ==
  IF i > Len(messages) THEN latest
  ELSE LatestLoop(messages, i + 1, botUserId,
         IF messages[i].authorId # botUserId THEN latest
         ELSE IF messages[i].marker = Null THEN latest
         ELSE [number |-> messages[i].marker,
               timestamp |-> messages[i].createdAt])

\* buildTranscript, given what fetchAllMessages returned.
buildTranscript(messages, botUserId) ==
  LET latest == LatestLoop(messages, 1, botUserId,
                           [number |-> Null, timestamp |-> Null])
  IN [messages |-> messages,
      latestCheckinNumber |-> latest.number,
      latestCheckinTimestamp |-> latest.timestamp]

\* buildTranscript is called on one of the given channels; nothing else runs.
InitFetch(channels) ==
  /\ build = 2
  /\ guildTeams = {}
  /\ controlHistory = <<>>
  /\ cachedCheckinNumber = Null
  /\ handler = [h \in Handlers |-> Idle]
  /\ issued = <<>>
  /\ completed = <<>>
  /\ scans = 0
  /\ recovered = Null
  /\ epoch = 0
  /\ triggers = 0
  /\ concurrency = 0
  /\ detectIn = <<>>
  /\ detectOut = Null
  /\ channel \in channels
  /\ fetch = [NoFetch EXCEPT !.pc = "loop", !.snapshot = channel]
  /\ parseIn = NoText
  /\ parseOut = NoDecision
  /\ standby = NoStandby
  /\ QuietHelpers

InitTranscript == InitFetch(TranscriptChannels)

InitPaging == InitFetch(PagingChannels)

\* One turn of the while loop that finds a page with messages: the page is
\* pushed onto all and its last key becomes the cursor.
FetchPage(k) ==
  /\ fetch.pc = "loop"
  /\ k \in 1..PageLimit
  /\ k <= Len(OlderThan(channel, fetch.before))
  /\ LET page == Page(channel, fetch.before, k)
     IN fetch' = [fetch EXCEPT !.all = @ \o page, !.before = LastKey(page)]
  /\ UNCHANGED <<commandVars, parserVars, standby, helperVars, channel>>

\* The turn that finds the empty page: break, sort, and the rest of
\* buildTranscript.
FetchEnd ==
  /\ fetch.pc = "loop"
  /\ OlderThan(channel, fetch.before) = <<>>
  /\ fetch' = [fetch EXCEPT
                 !.pc = "done",
                 !.result = buildTranscript(SortByCreatedAt(fetch.all), BotUser)]
  /\ UNCHANGED <<commandVars, parserVars, standby, helperVars, channel>>

\* A member posts in the channel while the loop awaits a page.
Post(later) ==
  /\ fetch.pc = "loop"
  /\ fetch.posts < MaxPosts
  /\ LET last == IF channel = <<>> THEN 1 ELSE channel[Len(channel)].createdAt
         at   == IF later THEN last + 1 ELSE last
     IN channel' = Append(channel, TMsg(Len(channel) + 1, OtherUser, at, Null))
  /\ fetch' = [fetch EXCEPT !.posts = @ + 1]
  /\ UNCHANGED <<commandVars, parserVars, standby, helperVars>>

FetchPageStep == \E k \in 1..PageLimit : FetchPage(k)
PostStep == \E later \in BOOLEAN : Post(later)

NextTranscript ==
  \/ FetchPageStep
  \/ FetchEnd
  \/ PostStep

SpecTranscript == InitTranscript /\ [][NextTranscript]_vars

\* The paging loop alone; the adapter answers every page request, so the
\* loop's turns are fair.
SpecTranscriptFair ==
  /\ InitPaging
  /\ [][NextTranscript]_vars
  /\ WF_vars(FetchPageStep)
  /\ WF_vars(FetchEnd)

\* ------------------------------------------------- parseStandbyDecision
\* A text is a sequence of tokens: the four keys and the two action words
\* (in any letter case), a space, a newline, and "x" for any other character.
Keys == {"ACTION:", "MESSAGE:", "REASON:", "DRAFT:"}
ActionWords == {"REPLY", "ESCALATE"}
Tokens == Keys \cup ActionWords \cup {" ", "\n", "x"}

\* \s
IsSpace(t) == t \in {" ", "\n"}

RECURSIVE TrimStart(_)
TrimStart(text) ==
  IF text # <<>> /\ IsSpace(Head(text)) THEN TrimStart(Tail(text)) ELSE text

RECURSIVE TrimEnd(_)
TrimEnd(text) ==
  IF text # <<>> /\ IsSpace(text[Len(text)])
    THEN TrimEnd(SubSeq(text, 1, Len(text) - 1))
    ELSE text

\* String.prototype.trim
Trim(text) == TrimEnd(TrimStart(text))

\* \s* from position i: the first position at or after i without whitespace.
RECURSIVE SkipSpace(_, _)
SkipSpace(text, i) ==
  IF i <= Len(text) /\ IsSpace(text[i]) THEN SkipSpace(text, i + 1) ELSE i

\* [^\n]+ from position i: the tokens up to the next newline.
RECURSIVE LineFrom(_, _)
LineFrom(text, i) ==
  IF i > Len(text) THEN <<>>
  ELSE IF text[i] = "\n" THEN <<>>
  ELSE <<text[i]>> \o LineFrom(text, i + 1)

\* Mutant: the last place where the pattern matches.
LastMatch(hits) == CHOOSE i \in hits : \A j \in hits : j <= i

\* String.prototype.match without the g flag: the leftmost match.
FirstMatch(hits) == CHOOSE i \in hits : \A j \in hits : i <= j

\* What match(...)?.[1] yields when the pattern does not match.
NoMatch == <<"undefined">>

\* normalized.match(/ACTION:\s*(REPLY|ESCALATE)/i)?.[1]?.toUpperCase()
MatchAction(text) ==
  LET hits == {i \in 1..Len(text) :
                 /\ text[i] = "ACTION:"
                 /\ SkipSpace(text, i + 1) <= Len(text)
                 /\ text[SkipSpace(text, i + 1)] \in ActionWords}
  IN IF hits = {} THEN "undefined"
     ELSE text[SkipSpace(text, FirstMatch(hits) + 1)]

\* normalized.match(/KEY\s*([\s\S]*)/i)?.[1]?.trim() for MESSAGE: and DRAFT:
MatchRest(text, key) ==
  LET hits == {i \in 1..Len(text) : text[i] = key}
  IN IF hits = {} THEN NoMatch
     ELSE Trim(SubSeq(text, FirstMatch(hits) + 1, Len(text)))

\* normalized.match(/REASON:\s*([^\n]+)/i)?.[1]?.trim()
MatchReason(text) ==
  LET hits == {i \in 1..Len(text) :
                 text[i] = "REASON:" /\ SkipSpace(text, i + 1) <= Len(text)}
  IN IF hits = {} THEN NoMatch
     ELSE Trim(LineFrom(text, SkipSpace(text, FirstMatch(hits) + 1)))

UncertainReason == <<"Uncertain response.">>
ParseFailureReason == <<"Could not parse assistant decision.">>

ReplyDecision(message) == [action |-> "REPLY", message |-> message]
EscalateDecision(reason, draft) ==
  [action |-> "ESCALATE", reason |-> reason, draft |-> draft]

\* String.prototype.slice(0, n)
Prefix(text, n) == SubSeq(text, 1, IF Len(text) < n THEN Len(text) ELSE n)

\* Mutant: the fallback draft is the whole text.
FallbackUncut(normalized) == EscalateDecision(ParseFailureReason, normalized)

\* The last return of parseStandbyDecision.
Fallback(normalized) ==
  EscalateDecision(ParseFailureReason, Prefix(normalized, DraftCap))

\* Mutant: a matched MESSAGE: is enough, also with nothing behind it.
Matched(message) == message # NoMatch

\* if (message): the pattern matched and the trimmed payload is not empty.
Usable(message) == message # NoMatch /\ message # <<>>

parseStandbyDecision(raw) ==
  LET normalized == Trim(raw)
      action  == MatchAction(normalized)
      message == MatchRest(normalized, "MESSAGE:")
      reason  == MatchReason(normalized)
      draft   == MatchRest(normalized, "DRAFT:")
  IN IF action = "REPLY" /\ Usable(message)
       THEN ReplyDecision(message)
     ELSE IF action = "ESCALATE"
       THEN EscalateDecision(IF reason = NoMatch THEN UncertainReason ELSE reason,
                             IF draft = NoMatch THEN <<>> ELSE draft)
     ELSE Fallback(normalized)

\* The texts of at most n tokens over an alphabet.
TextsOver(alphabet, n) == UNION {[1..len -> alphabet] : len \in 0..n}
Texts(n) == TextsOver(Tokens, n)

\* The reasons and drafts put into the escalate shape: one-line reasons that
\* may hold a space or the DRAFT: key, drafts that may hold whitespace or
\* the REASON: key.
Reasons == TextsOver({"x", " ", "DRAFT:"}, MaxPart)
Drafts == TextsOver({"x", " ", "\n", "REASON:"}, MaxPart)

\* "ACTION: REPLY\nMESSAGE: <s>"
ReplyText(s) == <<"ACTION:", " ", "REPLY", "\n", "MESSAGE:", " ">> \o s

\* "ACTION: ESCALATE\nREASON: <r>\nDRAFT: <d>"
EscalateText(r, d) ==
  <<"ACTION:", " ", "ESCALATE", "\n", "REASON:", " ">> \o r
    \o <<"\n", "DRAFT:", " ">> \o d

\* The decision texts tried: any text of up to MaxRaw tokens, and the two
\* well-formed shapes around any parts of up to MaxPart tokens.
ParseInputs ==
  {[form |-> "raw", text |-> t] : t \in Texts(MaxRaw)}
    \cup {[form |-> "reply", s |-> s, text |-> ReplyText(s)] :
            s \in Texts(MaxPart) \ {<<>>}}
    \cup {[form |-> "escalate", r |-> r, d |-> d, text |-> EscalateText(r, d)] :
            r \in Reasons, d \in Drafts}

\* No command is running and none will.
QuietCommands ==
  /\ build = 2
  /\ guildTeams = {}
  /\ controlHistory = <<>>
  /\ cachedCheckinNumber = Null
  /\ handler = [h \in Handlers |-> Idle]
  /\ issued = <<>>
  /\ completed = <<>>
  /\ scans = 0
  /\ recovered = Null
  /\ epoch = 0
  /\ triggers = 0
  /\ concurrency = 0
  /\ detectIn = <<>>
  /\ detectOut = Null

InitParse ==
  /\ QuietCommands
  /\ channel = <<>>
  /\ fetch = NoFetch
  /\ parseIn \in ParseInputs
  /\ parseOut = NoDecision
  /\ standby = NoStandby
  /\ QuietHelpers

\* parseStandbyDecision(rawDecision)
Parse ==
  /\ parseOut = NoDecision
  /\ parseOut' = parseStandbyDecision(parseIn.text)
  /\ UNCHANGED <<commandVars, transcriptVars, standby, helperVars, parseIn>>

SpecParse == InitParse /\ [][Parse]_vars

\* ------------------------------------------------- runStandby
\* What guild.channels.fetch(POLY_CONTROL_CHANNEL_ID) may do: resolve to a
\* text channel, to null, to a channel of another type, or reject.
Lookups == {"text", "none", "wrongType", "fails"}

\* Channel names as token sequences: the prefix in either letter case, the
\* digit, another character.
ChannelNames ==
  { <<"team-", "1">>, <<"TEAM-", "1", "1">>, <<"team-", "1", "1", "1">>,
    <<"team-">>, <<"team-", "1", "x">>, <<"x", "team-", "1">>, <<"x">> }

\* TEAM_CHANNEL_REGEX = /^team-(\d{1,2})$/i
TeamChannelMatch(name) ==
  /\ Len(name) \in 2..3
  /\ name[1] \in {"team-", "TEAM-"}
  /\ \A k \in 2..Len(name) : name[k] = "1"

\* The messageCreate events: whether the client has its user, who wrote the
\* message (a bot, the bot itself included, or a member), whether it
\* mentions the bot, whether it came from a guild, the channel's type and
\* name, and whether there is text around the mention.
Mentions ==
  [clientUser : BOOLEAN, authorBot : BOOLEAN, mentionsBot : BOOLEAN,
   inGuild : BOOLEAN, channelType : {"GuildText", "other"},
   channelName : ChannelNames, hasQuestion : BOOLEAN]

\* Mutant: the author is not looked at.
AnyAuthorPasses(m) ==
  /\ m.clientUser
  /\ m.mentionsBot
  /\ m.inGuild
  /\ m.channelType = "GuildText"
  /\ TeamChannelMatch(m.channelName)

\* The six early returns of runStandby: none of them is taken.
PassesGuards(m) ==
  /\ m.clientUser
  /\ ~m.authorBot
  /\ m.mentionsBot
  /\ m.inGuild
  /\ m.channelType = "GuildText"
  /\ TeamChannelMatch(m.channelName)

\* A reason longer than the notice's cap.
LongReason == [i \in 1..(ReasonCap + 1) |-> "x"]

\* A reason of exactly the cap's length.
ExactReason == [i \in 1..ReasonCap |-> "x"]

\* What the decision service may answer: the two well-formed shapes, a
\* reason at the cap and one beyond it, garbage, a REPLY without message, and
\* no text at all.
DecisionTexts ==
  { ReplyText(<<"x">>),
    EscalateText(<<"x">>, <<"x">>),
    EscalateText(ExactReason, <<>>),
    EscalateText(LongReason, <<>>),
    <<"x", " ", "x">>,
    <<"ACTION:", " ", "REPLY">>,
    <<" ">> }

\* Mutant: the reply is posted with the organizer's mention in front.
ReplyWithMention(decision) ==
  [to |-> "origin", kind |-> "reply",
   text |-> <<"<@owner>">> \o decision.message]

\* The posts of the handler, as what they are sent to and what they hold.
ReplyPost(decision) ==
  [to |-> "origin", kind |-> "reply", text |-> decision.message]
DeflectionPost == [to |-> "origin", kind |-> "deflection"]
NeedInfoPost == [to |-> "origin", kind |-> "needInfo"]
NeedInfoNotice == [to |-> "control", kind |-> "needInfoNotice"]

\* issueSummary: the reason, cut and dotted when longer than the cap.
IssueSummary(reason) ==
  IF Len(reason) > ReasonCap
    THEN TrimEnd(Prefix(reason, ReasonCap - 3)) \o <<".", ".", ".">>
    ELSE reason

\* `<@${config.OWNER_USER_ID}>`, channel.toString() and message.url.
OwnerMention == "<@owner>"
OriginRef == "<#origin>"
JumpLink == "message.url"
UserQuestion(hasQuestion) ==
  IF hasQuestion THEN "userQuestion" ELSE "[Mention with no question text]"

\* The escalation notice. The later build's sentence has the mention, the
\* channel, the cut reason and the link; the earlier build's lines have the
\* mention, the channel, the reason, the question, the draft and the link.
EscalationNotice(b, decision, hasQuestion) ==
  IF b = 2
    THEN [to |-> "control", kind |-> "notice",
          mention |-> OwnerMention, channel |-> OriginRef,
          reason |-> IssueSummary(decision.reason),
          link |-> JumpLink]
    ELSE [to |-> "control", kind |-> "notice",
          mention |-> OwnerMention, channel |-> OriginRef,
          reason |-> decision.reason,
          question |-> UserQuestion(hasQuestion),
          draft |-> IF decision.draft # <<>> THEN decision.draft
                    ELSE <<"[none]">>,
          link |-> JumpLink]

\* Mutant: the handler returns once the deflection is posted.
ReturnAfterDeflection(control) == "done"

\* if (control && control.type === ChannelType.GuildText)
AfterDeflection(control) == IF control = "text" THEN "notice" ELSE "done"

Raised(r) == [r EXCEPT !.pc = "raised"]

\* Mutant: the call is made again when the service gave no text.
AskAgain(r) == [r EXCEPT !.serviceFailed = TRUE]

\* openai.responses.create rejects, or askOpenAI throws "OpenAI did not
\* return output text."; runStandby has no catch around the call.
AskFailed(r) == [Raised(r) EXCEPT !.serviceFailed = TRUE]

\* The module state at start-up, either build, no command issued.
InitStandby ==
  /\ build \in Builds
  /\ guildTeams = {}
  /\ controlHistory = <<>>
  /\ cachedCheckinNumber = Null
  /\ handler = [h \in Handlers |-> Idle]
  /\ issued = <<>>
  /\ completed = <<>>
  /\ scans = 0
  /\ recovered = Null
  /\ epoch = 0
  /\ triggers = 0
  /\ concurrency = 0
  /\ detectIn = <<>>
  /\ detectOut = Null
  /\ channel = <<>>
  /\ fetch = NoFetch
  /\ parseIn = NoText
  /\ parseOut = NoDecision
  /\ standby = NoStandby
  /\ QuietHelpers

otherVars == <<commandVars, transcriptVars, parserVars, helperVars>>

\* messageCreate: the guards of runStandby.
Mention(m) ==
  /\ standby.pc = "idle"
  /\ standby' = [standby EXCEPT
        !.pc = IF PassesGuards(m) THEN "transcript" ELSE "ignored",
        !.message = m,
        !.hasQuestion = m.hasQuestion]
  /\ UNCHANGED otherVars

\* await buildTranscript(channel, client.user.id)
StandbyTranscript(ok) ==
  /\ standby.pc = "transcript"
  /\ standby' = IF ok THEN [standby EXCEPT !.pc = "load"] ELSE Raised(standby)
  /\ UNCHANGED otherVars

\* await loadPromptConfig(); await loadHackathonInfo(); the earlier build
\* answers a mention itself when the info document is not ready, the later
\* one puts a note in the document's place and goes on.
LoadContext(configOk, file) ==
  /\ standby.pc = "load"
  /\ standby' =
       IF ~configOk THEN [Raised(standby) EXCEPT !.configBad = TRUE]
       ELSE IF build = 1 /\ ~loadHackathonInfo(file).ready
         THEN [standby EXCEPT !.pc = "needInfo", !.info = file]
       ELSE [standby EXCEPT !.pc = "ask", !.info = file]
  /\ UNCHANGED otherVars

\* await channel.send("I need organizer context ...")
NeedInfoSend(ok) ==
  /\ standby.pc = "needInfo"
  /\ standby' =
       IF ok THEN [standby EXCEPT !.pc = "needInfoLookup",
                                  !.posts = Append(@, NeedInfoPost)]
       ELSE [Raised(standby) EXCEPT !.sendFailed = TRUE]
  /\ UNCHANGED otherVars

\* await message.guild.channels.fetch(...) on that path
NeedInfoLookup(found) ==
  /\ standby.pc = "needInfoLookup"
  /\ standby' =
       IF found = "fails" THEN [Raised(standby) EXCEPT !.control = found]
       ELSE [standby EXCEPT !.control = found,
                            !.pc = IF found = "text" THEN "needInfoNotice"
                                   ELSE "done"]
  /\ UNCHANGED otherVars

\* await controlMissing.send(...)
NeedInfoNotify(ok) ==
  /\ standby.pc = "needInfoNotice"
  /\ standby' =
       IF ok THEN [standby EXCEPT !.pc = "done",
                                  !.posts = Append(@, NeedInfoNotice)]
       ELSE [Raised(standby) EXCEPT !.sendFailed = TRUE]
  /\ UNCHANGED otherVars

\* The two renderTemplate calls, await askOpenAI, parseStandbyDecision and
\* the branch on the decision. askOpenAI trims the text and throws when
\* nothing is left.
Ask(templateOk, serviceOk, text) ==
  /\ standby.pc = "ask"
  /\ standby' =
       IF ~templateOk THEN [Raised(standby) EXCEPT !.configBad = TRUE]
       ELSE IF ~serviceOk \/ Trim(text) = <<>>
         THEN AskFailed([standby EXCEPT !.asked = @ + 1])
       ELSE LET decision == parseStandbyDecision(Trim(text))
            IN [standby EXCEPT
                  !.asked = @ + 1,
                  !.rawDecision = Trim(text),
                  !.decision = decision,
                  !.pc = IF decision.action = "REPLY" THEN "reply"
                         ELSE "lookup"]
  /\ UNCHANGED otherVars

\* await channel.send(decision.message); return
StandbyReply(ok) ==
  /\ standby.pc = "reply"
  /\ standby' =
       IF ok THEN [standby EXCEPT !.pc = "done",
                                  !.posts = Append(@, ReplyPost(standby.decision))]
       ELSE [Raised(standby) EXCEPT !.sendFailed = TRUE]
  /\ UNCHANGED otherVars

\* const control = await guild.channels.fetch(config.POLY_CONTROL_CHANNEL_ID)
Lookup(found) ==
  /\ standby.pc = "lookup"
  /\ standby' =
       IF found = "fails" THEN [Raised(standby) EXCEPT !.control = found]
       ELSE [standby EXCEPT !.control = found, !.pc = "deflect"]
  /\ UNCHANGED otherVars

\* await channel.send(renderTemplate(promptConfig.standbyEscalationMessage))
Deflect(templateOk, ok) ==
  /\ standby.pc = "deflect"
  /\ standby' =
       IF ~templateOk THEN [Raised(standby) EXCEPT !.configBad = TRUE]
       ELSE IF ~ok THEN [Raised(standby) EXCEPT !.sendFailed = TRUE]
       ELSE [standby EXCEPT !.pc = AfterDeflection(standby.control),
                            !.posts = Append(@, DeflectionPost)]
  /\ UNCHANGED otherVars

\* await control.send(escalation)
Notify(ok) ==
  /\ standby.pc = "notice"
  /\ standby' =
       IF ok THEN [standby EXCEPT
                     !.pc = "done",
                     !.posts = Append(@, EscalationNotice(build, standby.decision,
                                                          standby.hasQuestion))]
       ELSE [Raised(standby) EXCEPT !.sendFailed = TRUE]
  /\ UNCHANGED otherVars

\* client.on("messageCreate"): the await of runStandby returns, or the
\* catch logs what it raised; the listener is ready for the next event.
Listener ==
  /\ standby.pc \in {"done", "raised", "ignored"}
  /\ standby.invocation < MaxMentions
  /\ standby' = [NoStandby EXCEPT
        !.invocation = standby.invocation + 1,
        !.failedBefore = standby.failedBefore \/ standby.serviceFailed]
  /\ UNCHANGED otherVars

MentionStep == \E m \in Mentions : Mention(m)
StandbyTranscriptStep == \E ok \in BOOLEAN : StandbyTranscript(ok)
LoadContextStep == \E c \in BOOLEAN, f \in InfoFiles : LoadContext(c, f)
NeedInfoSendStep == \E ok \in BOOLEAN : NeedInfoSend(ok)
NeedInfoLookupStep == \E f \in Lookups : NeedInfoLookup(f)
NeedInfoNotifyStep == \E ok \in BOOLEAN : NeedInfoNotify(ok)
AskStep == \E t \in BOOLEAN, v \in BOOLEAN, x \in DecisionTexts : Ask(t, v, x)
StandbyReplyStep == \E ok \in BOOLEAN : StandbyReply(ok)
LookupStep == \E f \in Lookups : Lookup(f)
DeflectStep == \E t \in BOOLEAN, ok \in BOOLEAN : Deflect(t, ok)
NotifyStep == \E ok \in BOOLEAN : Notify(ok)

NextStandby ==
  \/ MentionStep
  \/ StandbyTranscriptStep
  \/ LoadContextStep
  \/ NeedInfoSendStep
  \/ NeedInfoLookupStep
  \/ NeedInfoNotifyStep
  \/ AskStep
  \/ StandbyReplyStep
  \/ LookupStep
  \/ DeflectStep
  \/ NotifyStep
  \/ Listener

SpecStandby == InitStandby /\ [][NextStandby]_vars

\* ------------------------------------------------- renderTemplate
\* A template is a sequence of tokens: "{{" and "}}", a whitespace, and "a",
\* "b" for the identifiers of two keys (a run of them is another identifier).
\* A value may also hold "x", any character that is none of these, and "$&",
\* which String.prototype.replace expands to the matched text.
TemplateTokens == {"{{", "}}", "a", " "}

\* [a-zA-Z0-9_]
IsNameChar(t) == t \in {"a", "b"}

\* [a-zA-Z0-9_]+ from position i: the first position after the run.
RECURSIVE SkipName(_, _)
SkipName(text, i) ==
  IF i <= Len(text) /\ IsNameChar(text[i]) THEN SkipName(text, i + 1) ELSE i

\* PLACEHOLDER_REGEX = /{{\s*([a-zA-Z0-9_]+)\s*}}/g matched at position i:
\* the position of the closing braces, 0 when it does not match there.
PlaceholderEnd(text, i) ==
  IF text[i] # "{{" THEN 0
  ELSE LET n == SkipSpace(text, i + 1)
           e == SkipName(text, n)
           c == SkipSpace(text, e)
       IN IF e > n /\ c <= Len(text) /\ text[c] = "}}" THEN c ELSE 0

\* new RegExp(`{{\\s*${key}\\s*}}`, "g") matched at position i.
KeyEnd(text, i, key) ==
  IF text[i] # "{{" THEN 0
  ELSE LET n == SkipSpace(text, i + 1)
           c == SkipSpace(text, n + 1)
       IN IF n <= Len(text) /\ text[n] = key /\ c <= Len(text) /\ text[c] = "}}"
            THEN c ELSE 0

\* The replacement string of replace(pattern, value): $& is the match.
RECURSIVE Expand(_, _)
Expand(value, matched) ==
  IF value = <<>> THEN <<>>
  ELSE (IF Head(value) = "$&" THEN matched ELSE <<Head(value)>>)
         \o Expand(Tail(value), matched)

\* Mutant: the pattern has no g flag, the first occurrence alone is replaced.
ReplaceFirst(text, i, key, value) ==
  LET hits == {j \in i..Len(text) : KeyEnd(text, j, key) > 0}
  IN IF hits = {} THEN SubSeq(text, i, Len(text))
     ELSE LET j == FirstMatch(hits)
              e == KeyEnd(text, j, key)
          IN SubSeq(text, i, j - 1) \o Expand(value, SubSeq(text, j, e))
               \o SubSeq(text, e + 1, Len(text))

\* out.replace(pattern, value) from position i on: every match, left to
\* right, none overlapping, the inserted text not scanned again.
RECURSIVE ReplaceAll(_, _, _, _)
ReplaceAll(text, i, key, value) ==
  IF i > Len(text) THEN <<>>
  ELSE LET e == KeyEnd(text, i, key)
       IN IF e > 0
            THEN Expand(value, SubSeq(text, i, e))
                   \o ReplaceAll(text, e + 1, key, value)
            ELSE <<text[i]>> \o ReplaceAll(text, i + 1, key, value)

\* for (const [key, value] of Object.entries(values)): in insertion order.
RECURSIVE RenderLoop(_, _, _)
RenderLoop(out, values, k) ==
  IF k > Len(values) THEN out
  ELSE RenderLoop(ReplaceAll(out, 1, values[k].key, values[k].value),
                  values, k + 1)

\* Mutant: the result is not scanned for placeholders that are left.
UnresolvedIgnored(out) == {}

\* [...out.matchAll(PLACEHOLDER_REGEX)]: where the matches start.
Unresolved(out) == {i \in 1..Len(out) : PlaceholderEnd(out, i) > 0}

\* renderTemplate: the text returned, or the throw with the text it left.
renderTemplate(template, values) ==
  LET out == RenderLoop(template, values, 1)
  IN [state |-> IF Unresolved(out) # {} THEN "threw" ELSE "returned",
      out |-> out]

\* The values tried: of the first key a plain character, the start of a
\* placeholder of the second key and a whole one, the match itself, an
\* identifier; of the second key a plain character and a placeholder of the
\* first key.
FirstValues ==
  {<<"x">>, <<"{{", "b">>, <<"{{", "b", "}}">>, <<"$&">>, <<"a">>}
SecondValues == {<<"x">>, <<"{{", "a", "}}">>}

Mappings ==
  {<<>>}
    \cup {<<[key |-> "a", value |-> v]>> : v \in FirstValues}
    \cup {<<[key |-> "a", value |-> v], [key |-> "b", value |-> w]>> :
            v \in FirstValues, w \in SecondValues}

\* The calls tried: every template of up to n tokens with every mapping.
RenderInputs(n) ==
  {[form |-> "call", template |-> t, values |-> m] :
     t \in TextsOver(TemplateTokens, n), m \in Mappings}

InitRender ==
  /\ QuietCommands
  /\ channel = <<>>
  /\ fetch = NoFetch
  /\ parseIn = NoText
  /\ parseOut = NoDecision
  /\ standby = NoStandby
  /\ renderIn \in RenderInputs(MaxTemplate)
  /\ renderOut = NoRendered
  /\ splitIn = NoSplit
  /\ splitOut = NoChunks

\* renderTemplate(template, values)
Render ==
  /\ renderOut = NoRendered
  /\ renderOut' = renderTemplate(renderIn.template, renderIn.values)
  /\ UNCHANGED <<commandVars, transcriptVars, parserVars, standby, renderIn,
                 splitIn, splitOut>>

SpecRender == InitRender /\ [][Render]_vars

\* ------------------------------------------------- splitForDiscord
\* A text is a sequence of characters: "a", "b" and the line break.
SplitChars == {"a", "b", "\n"}

\* text.split("\n")
RECURSIVE SplitLines(_)
SplitLines(text) ==
  LET breaks == {i \in 1..Len(text) : text[i] = "\n"}
  IN IF breaks = {} THEN <<text>>
     ELSE LET i == FirstMatch(breaks)
          IN <<SubSeq(text, 1, i - 1)>>
               \o SplitLines(SubSeq(text, i + 1, Len(text)))

\* while (start < line.length) parts.push(line.slice(start, start + maxLen))
RECURSIVE HardPieces(_, _)
HardPieces(line, maxLen) ==
  IF line = <<>> THEN <<>>
  ELSE <<Prefix(line, maxLen)>>
         \o HardPieces(SubSeq(line, maxLen + 1, Len(line)), maxLen)

\* Mutant: the line break that joins current and line is not counted.
ExceedsUncounted(current, line, maxLen) == Len(current) + Len(line) > maxLen

\* (current + "\n" + line).length > maxLen
Exceeds(current, line, maxLen) == Len(current) + 1 + Len(line) > maxLen

\* Mutant: current is pushed also when it is empty.
FlushedAlways(st) ==
  [st EXCEPT !.parts = Append(@, st.current), !.current = <<>>]

\* if (current.length > 0) { parts.push(current); current = "" }
Flushed(st) ==
  IF Len(st.current) > 0
    THEN [st EXCEPT !.parts = Append(@, st.current), !.current = <<>>]
    ELSE st

\* One turn of for (const line of lines). hard logs the chunks that are
\* followed by a piece of the same line.
SplitTurn(st, line, maxLen) ==
  IF Exceeds(st.current, line, maxLen)
    THEN LET f == Flushed(st)
             pieces == HardPieces(line, maxLen)
         IN IF Len(line) > maxLen
              THEN [f EXCEPT
                      !.parts = @ \o pieces,
                      !.hard = @ \cup {Len(f.parts) + k :
                                         k \in 1..(Len(pieces) - 1)}]
              ELSE [f EXCEPT !.current = line]
    ELSE [st EXCEPT !.current = IF Len(st.current) = 0 THEN line
                                ELSE st.current \o <<"\n">> \o line]

RECURSIVE SplitLoop(_, _, _, _)
SplitLoop(lines, i, st, maxLen) ==
  IF i > Len(lines) THEN st
  ELSE SplitLoop(lines, i + 1, SplitTurn(st, lines[i], maxLen), maxLen)

\* splitForDiscord(text, maxLen): the chunks, and the log hard.
splitForDiscord(text, maxLen) ==
  IF Len(text) <= maxLen
    THEN [state |-> "returned", chunks |-> <<text>>, hard |-> {}]
  ELSE LET st == Flushed(SplitLoop(SplitLines(text), 1,
                                   [parts |-> <<>>, current |-> <<>>,
                                    hard |-> {}],
                                   maxLen))
       IN [state |-> "returned", chunks |-> st.parts, hard |-> st.hard]

\* The calls tried: every text of up to n characters, every maximum length
\* from 1 to m.
SplitInputs(n, m) ==
  {[text |-> t, maxLen |-> l] : t \in TextsOver(SplitChars, n), l \in 1..m}

InitSplit ==
  /\ QuietCommands
  /\ channel = <<>>
  /\ fetch = NoFetch
  /\ parseIn = NoText
  /\ parseOut = NoDecision
  /\ standby = NoStandby
  /\ renderIn = NoRender
  /\ renderOut = NoRendered
  /\ splitIn \in SplitInputs(MaxText, MaxChunk)
  /\ splitOut = NoChunks

\* splitForDiscord(report, maxLen)
Split ==
  /\ splitOut = NoChunks
  /\ splitOut' = splitForDiscord(splitIn.text, splitIn.maxLen)
  /\ UNCHANGED <<commandVars, transcriptVars, parserVars, standby, renderIn,
                 renderOut, splitIn>>

SpecSplit == InitSplit /\ [][Split]_vars

\* ================================================= claims
\* The check-in numbers issued in the current process lifetime, in order.
IssuedNow ==
  LET IsNow(e) == e.epoch = epoch IN SelectSeq(issued, IsNow)

\* A handler whose delivery loop is over and whose summary is on its way.
Reporting(r) == r.pc = "reply" /\ r.summary.kind \in {"checkin", "send"}

\* The channels of a handler's send attempts, in the order of the attempts.
Attempted(r) == [i \in 1..Len(r.outcome) |-> r.outcome[i].channel]

\* The channels whose send had the given outcome, in the order of the attempts.
WithOutcome(r, ok) ==
  LET Is(a) == a.ok = ok
      sel   == SelectSeq(r.outcome, Is)
  IN [i \in 1..Len(sel) |-> sel[i].channel]

\* C1: two check-in triggers in flight at the same time are never issued the
\* same check-in number, also when both start while the counter is null.
C1_DistinctNumbers ==
  \A g, h \in Handlers :
    (/\ g # h
     /\ handler[g].checkinNumber # Null
     /\ handler[h].checkinNumber # Null)
    => handler[g].checkinNumber # handler[h].checkinNumber

\* C2: with the counter null and the recovery scan returning R, the check-in
\* triggers of one process lifetime that run one after another are issued
\* R+1, R+2, ..., R+N in that order.
C2_SerialRun ==
  \A i \in 1..Len(IssuedNow) :
    recovered # Null /\ IssuedNow[i].n = recovered + i

\* C2 witness: three check-ins in a row after a scan that returned 2.
C2_Witness ==
  /\ epoch = 0
  /\ recovered = 2
  /\ [i \in 1..Len(issued) |-> issued[i].n] = <<3, 4, 5>>

\* C3: a check-in broadcast after a restart is numbered above every check-in
\* that was broadcast and reported before that restart (the scan recovers the
\* largest number issued), so no number is issued twice across restarts.
C3_RecoveryContinues ==
  \A i, j \in 1..Len(completed) :
    completed[i].epoch < completed[j].epoch => completed[i].n < completed[j].n

\* C4: the recovery scan is started at most once per process lifetime.
C4_ScanOnce == scans <= 1

\* C5: once initialised the counter never decreases within a process
\* lifetime, whatever the interleaving of the check-in triggers.
C5_CounterMonotone ==
  [][(cachedCheckinNumber # Null /\ cachedCheckinNumber' # Null)
       => cachedCheckinNumber' >= cachedCheckinNumber]_vars

\* C6: the step that gives a check-in trigger its number advances the
\* initialised counter by exactly 1, and no delivery attempt, succeeded or
\* failed, changes the counter.
C6_AdvanceByOne ==
  [][\A h \in Handlers :
       /\ (/\ handler[h].checkinNumber = Null
           /\ handler'[h].checkinNumber # Null
           /\ cachedCheckinNumber # Null)
          => cachedCheckinNumber' = cachedCheckinNumber + 1
       /\ (/\ handler[h].pc = "send"
           /\ handler'[h].pc \in {"send", "reply"}
           /\ handler'[h] # handler[h])
          => cachedCheckinNumber' = cachedCheckinNumber]_vars

\* The check-in number a build reads in one message: the marker's number, or
\* without a marker the legacy phrase's number where the build knows it.
CheckinNumberOf(msg) ==
  IF msg.marker # Null THEN msg.marker
  ELSE IF build = 1 THEN msg.legacy
  ELSE Null

C9_OneAttemptEach ==
  \A h \in Handlers :
    LET r == handler[h]
    IN /\ r.pc = "send" => Attempted(r) = SubSeq(Targets(r), 1, r.idx - 1)
       /\ Reporting(r) => Attempted(r) = Targets(r)

\* An attempt, failed or not, leaves the handler in the loop or hands the
\* summary to editReply; only a restart ends a handler that is in the loop.
C9_NoAbort ==
  \A h \in Handlers :
    (handler[h].pc = "send" /\ epoch' = epoch)
      => handler'[h].pc \in {"send", "reply"}

\* C9: in a batch send every targeted channel gets exactly one delivery
\* attempt: a failure neither stops the attempts after it nor is retried, and
\* the command goes on to report.
C9_EveryTargetOnce == []C9_OneAttemptEach /\ [][C9_NoAbort]_vars

\* C9 witness: the first of three sends failed, the next two were attempted
\* and the summary is on its way.
C9_Witness ==
  \E h \in Handlers :
    /\ Reporting(handler[h])
    /\ Len(handler[h].outcome) = 3
    /\ ~handler[h].outcome[1].ok
    /\ handler[h].outcome[2].ok

\* C10: the summary a batch send reports gives the number of channels whose
\* send succeeded, the number of channels targeted, and as failed names
\* exactly the channels whose send failed.
C10_ExactSummary ==
  \A h \in Handlers :
    LET r == handler[h]
    IN Reporting(r) =>
         /\ r.summary.delivered = Len(WithOutcome(r, TRUE))
         /\ r.summary.total = Len(Targets(r))
         /\ r.summary.failedNames = WithOutcome(r, FALSE)
         /\ r.summary.kind = "send"
              => r.summary.deliveredNames = WithOutcome(r, TRUE)

\* C10 witness: three targets, the send to team-2 alone failed: 2 of 3
\* delivered, team-2 named as failed.
C10_Witness ==
  \E h \in Handlers :
    /\ Reporting(handler[h])
    /\ handler[h].summary.delivered = 2
    /\ handler[h].summary.total = 3
    /\ handler[h].summary.failedNames = <<2>>
    /\ WithOutcome(handler[h], FALSE) = <<2>>

\* The positions of the bot's marker messages in the channel the scan found.
BotMarkers ==
  {i \in 1..Len(fetch.snapshot) :
     /\ fetch.snapshot[i].authorId = BotUser
     /\ fetch.snapshot[i].marker # Null}

\* C11: latestCheckinNumber is the maximum of the marker values of the bot's
\* messages, in whatever chronological order they come, and
\* latestCheckinTimestamp is the creation time of a message carrying that
\* maximum; without a bot marker both are null.
C11_LatestIsMaximum ==
  fetch.pc = "done" =>
    IF BotMarkers = {}
      THEN /\ fetch.result.latestCheckinNumber = Null
           /\ fetch.result.latestCheckinTimestamp = Null
      ELSE /\ fetch.result.latestCheckinNumber =
                SetMax({fetch.snapshot[i].marker : i \in BotMarkers})
           /\ \E i \in BotMarkers :
                /\ fetch.snapshot[i].marker = fetch.result.latestCheckinNumber
                /\ fetch.snapshot[i].createdAt =
                     fetch.result.latestCheckinTimestamp

\* C12: whatever the history and the pages it came in, the messages returned
\* are in non-decreasing order of creation time.
C12_SortedByCreation ==
  fetch.pc = "done" =>
    \A i \in 1..(Len(fetch.result.messages) - 1) :
      fetch.result.messages[i].createdAt
        <= fetch.result.messages[i + 1].createdAt

\* C12 witness: three messages of three different times came newest first
\* in more than one page and are returned oldest first.
C12_Witness ==
  /\ fetch.pc = "done"
  /\ [i \in 1..Len(fetch.all) |-> fetch.all[i].createdAt] = <<3, 2, 1>>
  /\ [i \in 1..Len(fetch.result.messages) |->
        fetch.result.messages[i].createdAt] = <<1, 2, 3>>

\* Every message the channel held when the scan started is returned once.
C13_ExactlyOnce ==
  fetch.pc = "done" =>
    \A j \in 1..Len(fetch.snapshot) :
      Cardinality({i \in 1..Len(fetch.result.messages) :
                     fetch.result.messages[i].id = fetch.snapshot[j].id}) = 1

\* C13: the pagination loop terminates, and its result holds every message
\* that was in the channel when the scan started exactly once, for every
\* history length and also when messages are posted between two fetches.
C13_TerminatesComplete == []C13_ExactlyOnce /\ <>(fetch.pc = "done")

\* C13 witness: a history of exactly one full page, a message posted after
\* that page was fetched, and the loop over with exactly the page's messages.
C13_Witness ==
  /\ fetch.pc = "done"
  /\ Len(fetch.snapshot) = PageLimit
  /\ fetch.posts = 1
  /\ Len(fetch.all) = PageLimit
  /\ Len(channel) = PageLimit + 1

\* The text holds an action token: ACTION:, any whitespace, REPLY or
\* ESCALATE.
HasActionToken(text) ==
  \E i \in 1..Len(text), j \in 1..Len(text) :
    /\ i < j
    /\ text[i] = "ACTION:"
    /\ text[j] \in ActionWords
    /\ \A k \in (i + 1)..(j - 1) : IsSpace(text[k])

\* A decision of one of the two shapes.
WellFormed(dec) ==
  \/ /\ dec.action = "REPLY"
     /\ DOMAIN dec = {"action", "message"}
     /\ dec.message \in Seq(Tokens)
  \/ /\ dec.action = "ESCALATE"
     /\ DOMAIN dec = {"action", "reason", "draft"}
     /\ dec.reason \in Seq(Tokens) \cup {UncertainReason, ParseFailureReason}
     /\ dec.draft \in Seq(Tokens)

\* C14: parseStandbyDecision returns one well-formed decision for every
\* text, and for a text without an action token the Escalate fallback: the
\* parse-failure reason and the first DraftCap tokens of the trimmed text.
C14_TotalWithFallback ==
  parseOut # NoDecision =>
    /\ WellFormed(parseOut)
    /\ ~HasActionToken(parseIn.text) =>
         /\ parseOut.action = "ESCALATE"
         /\ parseOut.reason = ParseFailureReason
         /\ parseOut.draft = Prefix(Trim(parseIn.text), DraftCap)

\* C14 witness: a text of partial keywords, longer than the cap, parsed to
\* the fallback with a cut draft.
C14_Witness ==
  /\ parseIn.text = <<"ACTION:", "x", "ESCALATE", "x">>
  /\ parseOut = EscalateDecision(ParseFailureReason, <<"ACTION:", "x">>)

\* C15: "ACTION: ESCALATE\nREASON: r\nDRAFT: d" parses to Escalate with the
\* reason r and the draft d, for every one-line r and every d.
C15_EscalateRoundTrip ==
  (parseIn.form = "escalate" /\ parseOut # NoDecision)
    => parseOut = EscalateDecision(parseIn.r, parseIn.d)

\* C16 as stated: "ACTION: REPLY\nMESSAGE: s" parses to Reply with the
\* message s for every non-empty s.
C16_ReplyRoundTrip ==
  (parseIn.form = "reply" /\ parseOut # NoDecision)
    => parseOut = ReplyDecision(parseIn.s)

\* C16 amended: "ACTION: REPLY\nMESSAGE: s" parses to Reply with the message
\* s trimmed when s holds more than whitespace, and to the parse-failure
\* fallback when it does not; no Reply carries an empty message.
C16_ReplyTrimmed ==
  parseOut # NoDecision =>
    /\ parseOut.action = "REPLY" => parseOut.message # <<>>
    /\ parseIn.form = "reply" =>
         parseOut = IF Trim(parseIn.s) # <<>>
                      THEN ReplyDecision(Trim(parseIn.s))
                      ELSE EscalateDecision(ParseFailureReason,
                             Prefix(Trim(parseIn.text), DraftCap))

\* C16 witness: the message "ACTION:ESCALATE" comes back as the reply.
C16_Witness ==
  /\ parseIn.form = "reply"
  /\ parseIn.s = <<"ACTION:", "ESCALATE">>
  /\ parseOut = ReplyDecision(<<"ACTION:", "ESCALATE">>)

\* The posts of the standby handler that went to the control channel.
ControlPosts ==
  {i \in 1..Len(standby.posts) : standby.posts[i].to = "control"}

\* The decision service answered and no send or template failed.
DecidedUnhindered ==
  /\ standby.decision # NoDecision
  /\ ~standby.sendFailed
  /\ ~standby.configBad

\* C17: for every decision text, well-formed or not, the standby handler
\* completes without raising and posts at least one message to the
\* originating channel, given that the posts succeed and the prompt
\* configuration is valid.
C17_AlwaysAnswers ==
  DecidedUnhindered =>
    /\ standby.pc # "raised"
    /\ standby.pc = "done" =>
         \E i \in 1..Len(standby.posts) : standby.posts[i].to = "origin"

\* C18: on a Reply decision the handler posts exactly one message, the
\* decision's message unchanged, to the originating channel and nothing to
\* the control channel.
C18_ReplyOnly ==
  standby.decision.action = "REPLY" =>
    /\ ControlPosts = {}
    /\ standby.pc = "done" =>
         standby.posts = <<[to |-> "origin", kind |-> "reply",
                            text |-> standby.decision.message]>>
    /\ standby.pc # "done" => standby.posts = <<>>

\* C18 witness: the reply "x" was posted and the handler returned.
C18_Witness ==
  /\ standby.pc = "done"
  /\ standby.decision = ReplyDecision(<<"x">>)
  /\ Len(standby.posts) = 1
  /\ standby.posts[1].text = <<"x">>

\* C19: on an Escalate decision with the control channel resolved to a text
\* channel, the deflection is posted to the originating channel first and
\* only then one escalation notice to the control channel.
C19_DeflectThenNotify ==
  (standby.decision.action = "ESCALATE" /\ standby.control = "text") =>
    /\ Len(standby.posts) <= 2
    /\ \A i \in ControlPosts :
         /\ i = 2
         /\ standby.posts[1] = [to |-> "origin", kind |-> "deflection"]
         /\ standby.posts[2].kind = "notice"
    /\ standby.pc = "done" => ControlPosts = {2}

\* C19 witness: deflection and notice are posted, in that order.
C19_Witness ==
  /\ standby.pc = "done"
  /\ standby.decision.action = "ESCALATE"
  /\ standby.control = "text"
  /\ Len(standby.posts) = 2
  /\ standby.posts[1].kind = "deflection"
  /\ standby.posts[2].to = "control"

\* C20: on an Escalate decision with the control channel not resolved (the
\* lookup yields nothing, a channel of another type, or fails) the deflection
\* is still posted, no notice is sent and the handler completes without error.
C20_DegradedEscalation ==
  (/\ standby.decision.action = "ESCALATE"
   /\ standby.control \in {"none", "wrongType", "fails"}
   /\ ~standby.sendFailed
   /\ ~standby.configBad) =>
    /\ standby.pc # "raised"
    /\ ControlPosts = {}
    /\ standby.pc = "done" =>
         standby.posts = <<[to |-> "origin", kind |-> "deflection"]>>

\* The invocation whose call of the decision service failed or gave no
\* text: it has raised, it called the service once, it posted nothing.
C21_FailedInvocation ==
  standby.serviceFailed =>
    /\ standby.pc = "raised"
    /\ standby.asked = 1
    /\ standby.posts = <<>>

\* The step after such a failure is the listener taking the next event:
\* the handler starts as it does the first time and the module state is
\* what it was.
C21_NextStartsFresh ==
  (standby.serviceFailed /\ standby' # standby) =>
    /\ standby' = [NoStandby EXCEPT !.invocation = standby.invocation + 1,
                                    !.failedBefore = TRUE]
    /\ otherVars' = otherVars

\* C21: when the decision service fails or returns no usable text, that one
\* invocation of the standby pipeline fails: the service is not called again
\* for it, neither a reply nor an escalation is posted for it, and the
\* invocations after it run as if it had not happened.
C21_ServiceFailureIsolated ==
  []C21_FailedInvocation /\ [][C21_NextStartsFresh]_vars

\* C21 witness: after an invocation that failed at the service, the next
\* one asked once, got a Reply and posted it.
C21_Witness ==
  /\ standby.failedBefore
  /\ standby.invocation = 2
  /\ standby.pc = "done"
  /\ standby.asked = 1
  /\ standby.posts = <<ReplyPost(ReplyDecision(<<"x">>))>>

\* The places of a text where the placeholder of a key of the mapping starts.
MappedAt(text, values) ==
  {i \in 1..Len(text) :
     \E k \in 1..Len(values) : KeyEnd(text, i, values[k].key) > 0}

\* C22: renderTemplate replaces every occurrence of the placeholders named
\* in the mapping (with plain values: one value per occurrence in the
\* template, none left), and it returns a text without placeholder syntax or
\* throws, the latter exactly when a placeholder is left after substitution.
C22_RenderedOrThrown ==
  renderOut # NoRendered =>
    /\ renderOut.state = "returned" =>
         \A i \in 1..Len(renderOut.out) : PlaceholderEnd(renderOut.out, i) = 0
    /\ renderOut.state = "threw" =>
         \E i \in 1..Len(renderOut.out) : PlaceholderEnd(renderOut.out, i) > 0
    /\ (\A k \in 1..Len(renderIn.values) : renderIn.values[k].value = <<"x">>) =>
         /\ MappedAt(renderOut.out, renderIn.values) = {}
         /\ Cardinality({i \in 1..Len(renderOut.out) : renderOut.out[i] = "x"})
              = Cardinality(MappedAt(renderIn.template, renderIn.values))

\* C22 witness: both occurrences of {{a}} are replaced and the text returned.
C22_Witness ==
  /\ renderIn.template = <<"{{", "a", "}}", "{{", "a", "}}">>
  /\ renderIn.values = <<[key |-> "a", value |-> <<"x">>]>>
  /\ renderOut = [state |-> "returned", out |-> <<"x", "x">>]

\* The chunks put together again: a line break between two chunks cut at a
\* line boundary, nothing between two pieces of one line.
RECURSIVE Rejoined(_, _, _)
Rejoined(chunks, hard, i) ==
  IF i > Len(chunks) THEN <<>>
  ELSE chunks[i]
         \o (IF i = Len(chunks) \/ i \in hard THEN <<>> ELSE <<"\n">>)
         \o Rejoined(chunks, hard, i + 1)

\* C23: for every text longer than the maximum length the chunks, put
\* together again, are the text: nothing is lost or reordered, blank lines
\* and leading or trailing line breaks included.
C23_SplitRoundTrip ==
  (splitOut # NoChunks /\ Len(splitIn.text) > splitIn.maxLen) =>
    Rejoined(splitOut.chunks, splitOut.hard, 1) = splitIn.text

\* A chunk made of whole lines of the text.
WholeLines(chunk, text) ==
  \A k \in 1..Len(SplitLines(chunk)) :
    \E j \in 1..Len(SplitLines(text)) :
      SplitLines(chunk)[k] = SplitLines(text)[j]

\* A chunk that is one of the maxLen-sized pieces of a line longer than
\* maxLen.
PieceOfLongLine(chunk, text, maxLen) ==
  \E j \in 1..Len(SplitLines(text)) :
    LET line == SplitLines(text)[j]
    IN /\ Len(line) > maxLen
       /\ \E k \in 0..Len(line) :
            /\ k * maxLen < Len(line)
            /\ chunk = SubSeq(line, k * maxLen + 1,
                              IF (k + 1) * maxLen < Len(line)
                                THEN (k + 1) * maxLen ELSE Len(line))

\* C24: no chunk is longer than the maximum length, and every chunk is
\* made of whole lines of the text or is a piece of a line that is itself
\* longer than the maximum: a line that fits is never cut.
C24_ChunksFit ==
  splitOut # NoChunks =>
    \A i \in 1..Len(splitOut.chunks) :
      /\ Len(splitOut.chunks[i]) <= splitIn.maxLen
      /\ \/ WholeLines(splitOut.chunks[i], splitIn.text)
         \/ PieceOfLongLine(splitOut.chunks[i], splitIn.text, splitIn.maxLen)
      /\ (i \in splitOut.hard \/ i - 1 \in splitOut.hard) =>
           PieceOfLongLine(splitOut.chunks[i], splitIn.text, splitIn.maxLen)

\* C24 witness: with the maximum 3, a line of four characters is cut in two
\* and the line after it, with the blank line that ends the text, is one
\* chunk.
C24_Witness ==
  /\ splitIn = [text |-> <<"a", "a", "a", "b", "\n", "b", "\n">>, maxLen |-> 3]
  /\ splitOut.chunks = <<<<"a", "a", "a">>, <<"b">>, <<"b", "\n">>>>
  /\ splitOut.hard = {1}

\* A command issued by someone other than the owner, or outside the control
\* channel.
Unauthorized(i) ==
  i # NoInvoker /\ ~(i.user = OwnerUser /\ i.channelId = ControlChannelId)

\* A handler of such a command has done nothing but return with a refusal:
\* no number, no send attempt, no service call, no history read.
C25_OnlyRefusal ==
  \A h \in Handlers :
    Unauthorized(handler[h].by) =>
      /\ handler[h].pc = "refused"
      /\ handler[h].summary.kind = "refusal"
      /\ handler[h].summary.text \in {NotOwnerError, NotControlError}
      /\ handler[h].checkinNumber = Null
      /\ handler[h].outcome = <<>>
      /\ handler[h].asked = 0
      /\ handler[h].histories = 0

\* The step that refuses a command changes neither the counter nor the
\* control channel nor the scan log nor any other handler, and a refused
\* handler takes no further step.
C25_RefusalChangesNothing ==
  \A h \in Handlers :
    /\ (Unauthorized(handler'[h].by) /\ handler[h].pc = "idle") =>
         /\ cachedCheckinNumber' = cachedCheckinNumber
         /\ controlHistory' = controlHistory
         /\ scans' = scans
         /\ issued' = issued
         /\ \A g \in Handlers \ {h} : handler'[g] = handler[g]
    /\ handler[h].pc = "refused" => handler'[h] = handler[h]

\* C25: a control command (checkin, status, send) issued by someone other
\* than the owner, or outside the control channel, has no effect: no counter
\* change, no post, no history scan, no decision-service call; its only
\* outcome is the refusal to the invoker.
C25_AuthorizedOnly ==
  []C25_OnlyRefusal /\ [][C25_RefusalChangesNothing]_vars

\* C25 witness: while the owner's check-in is being delivered, the same
\* owner's command outside the control channel was refused.
C25_Witness ==
  /\ handler[1].pc = "send"
  /\ handler[1].by = [user |-> OwnerUser, channelId |-> ControlChannelId]
  /\ handler[1].checkinNumber = 1
  /\ handler[2].by = [user |-> OwnerUser, channelId |-> "elsewhere"]
  /\ handler[2].pc = "refused"
  /\ handler[2].summary.text = NotControlError

\* The info document as loadHackathonInfo found it is not ready.
NotReady(file) == file \in {"missing", "empty", "placeholder"}

\* /poly status with the document not ready: no call of the decision
\* service, the reply is the request to complete the file.
C26_StatusGate ==
  \A h \in Handlers :
    NotReady(handler[h].info) =>
      /\ handler[h].asked = 0
      /\ handler[h].pc = "reply"
      /\ handler[h].summary.kind = "needInfo"

\* A standby mention with the document not ready: no call of the decision
\* service, and what is posted first is the request for organizer context.
C26_StandbyGate ==
  NotReady(standby.info) =>
    /\ standby.asked = 0
    /\ standby.posts # <<>> => standby.posts[1] = NeedInfoPost
    /\ standby.pc = "done" => standby.posts # <<>>

\* C26: while the hackathon info file is missing, empty or still the
\* placeholder, neither /poly status nor a standby mention calls the
\* decision service; each asks for the file to be completed instead.
C26_InfoGate == C26_StatusGate /\ C26_StandbyGate

\* A handler of /poly checkin or of /poly send to all, past the listing of
\* the team channels.
TargetsAll(r) ==
  /\ r.pc \in InFlight \ {"deferred"}
  /\ r.cmd.sub = "checkin" \/ (r.cmd.sub = "send" /\ r.cmd.all)

\* C27: /poly checkin and /poly send with target all target every text
\* channel of the guild named team-<number>, each once, in ascending order
\* of the number, and when the loop is over each was attempted once in that
\* order.
C27_EveryTeamChannel ==
  \A h \in Handlers :
    LET r == handler[h]
        t == IF r.summary.kind = "noTeams" THEN <<>> ELSE Targets(r)
    IN TargetsAll(r) =>
         /\ Range(t) = guildTeams
         /\ \A i \in 1..(Len(t) - 1) : t[i] < t[i + 1]
         /\ Reporting(r) => Attempted(r) = t

\* The number a bot message records in either form: the marker's, or
\* without a marker the legacy phrase's (Null when it holds neither).
RecordedNumber(msg) == IF msg.marker # Null THEN msg.marker ELSE msg.legacy

\* C28: the recovery scan counts both forms of record: it returns the
\* largest number that a bot-authored message carries in its marker or,
\* without a marker, in its legacy phrase "Check-in #N".
C28_BothForms ==
  detectOut # Null =>
    detectOut =
      SetMax({RecordedNumber(detectIn[i]) :
                i \in {j \in 1..Len(detectIn) : detectIn[j].authorId = BotUser}}
             \ {Null})

\* The first action token of the text is REPLY.
FirstActionIsReply(text) ==
  \E i \in 1..Len(text), j \in 1..Len(text) :
    /\ i < j
    /\ text[i] = "ACTION:"
    /\ text[j] = "REPLY"
    /\ \A k \in (i + 1)..(j - 1) : IsSpace(text[k])
    /\ ~HasActionToken(SubSeq(text, 1, i - 1) \o <<"x">>)
    /\ \A k \in 1..(i - 1) :
         text[k] = "ACTION:" => ~HasActionToken(SubSeq(text, k, i))

\* The text has no MESSAGE: key, or nothing but whitespace behind it.
NoPayload(text) ==
  \A i \in 1..Len(text) :
    text[i] = "MESSAGE:" => \A k \in (i + 1)..Len(text) : IsSpace(text[k])

\* C29: a decision text whose action token is REPLY and that has no MESSAGE
\* payload, or a payload of whitespace only, is not returned as Reply: it
\* gives the Escalate fallback with the parse-failure reason and the first
\* DraftCap tokens of the trimmed text as draft.
C29_ReplyWithoutMessage ==
  (/\ parseOut # NoDecision
   /\ FirstActionIsReply(parseIn.text)
   /\ NoPayload(parseIn.text)) =>
    parseOut = EscalateDecision(ParseFailureReason,
                                Prefix(Trim(parseIn.text), DraftCap))

\* C29 witness: REPLY with a MESSAGE: key and only a space behind it.
C29_Witness ==
  /\ parseIn.text = <<"ACTION:", "REPLY", "MESSAGE:", " ">>
  /\ parseOut = EscalateDecision(ParseFailureReason, <<"ACTION:", "REPLY">>)

\* The parts the notice is to carry, each with the value the handler has
\* for it; the reason counts cut or whole.
CarriesAll(notice, r) ==
  /\ {"mention", "channel", "reason", "question", "link"} \subseteq DOMAIN notice
  /\ notice.mention = OwnerMention
  /\ notice.channel = OriginRef
  /\ notice.reason \in {r.decision.reason, IssueSummary(r.decision.reason)}
  /\ notice.question = UserQuestion(r.hasQuestion)
  /\ notice.link = JumpLink

\* C30: the escalation notice posted to the control channel carries the
\* organizer mention, a reference to the originating channel, the reason,
\* the user's question (or the placeholder when the mention had no other
\* text) and the jump link to the triggering message.
C30_NoticeComplete ==
  \A i \in ControlPosts :
    standby.posts[i].kind = "notice" => CarriesAll(standby.posts[i], standby)

\* The notice shows the reason whole when it fits the cap, and otherwise a
\* prefix of it with three dots behind, no longer than the cap.
ShownCapped(shown, reason) ==
  /\ Len(shown) <= ReasonCap
  /\ Len(reason) <= ReasonCap => shown = reason
  /\ Len(reason) > ReasonCap =>
       \E n \in 0..(ReasonCap - 3) :
         shown = Prefix(reason, n) \o <<".", ".", ".">>

\* C31: the reason shown in the escalation notice is never longer than the
\* cap: a reason within the cap appears unchanged, a longer one is cut to a
\* prefix and ends with an ellipsis.
C31_ReasonCapped ==
  \A i \in ControlPosts :
    standby.posts[i].kind = "notice" =>
      ShownCapped(standby.posts[i].reason, standby.decision.reason)

\* The handlers that have built the status request from the template.
Requesting ==
  {h \in Handlers : handler[h].prompt.kind = "rendered"}

\* The lines of the team slot that open a channel's transcript.
Openings(slot) ==
  {k \in 1..Len(slot) : slot[k].line = "Channel:"}

\* The team slot holds one transcript per team channel, by ascending team
\* number, with the separator's three lines before each but the first.
TeamOrder(slot, teamChannels) ==
  /\ Cardinality(Openings(slot)) = Len(teamChannels)
  /\ 1 \in Openings(slot)
  /\ \A j, k \in Openings(slot) : j < k => slot[j].of.team < slot[k].of.team
  /\ {slot[k].of.team : k \in Openings(slot)} =
       {teamChannels[k] : k \in 1..Len(teamChannels)}
  /\ \A k \in Openings(slot) \ {1} :
       /\ k > 4
       /\ <<slot[k - 3].line, slot[k - 2].line, slot[k - 1].line>> =
            <<"", "---", "">>
       /\ slot[k - 4].line # "Messages:"

\* C32: in the status request the control-transcript slot is never empty:
\* with the control channel absent or not a text channel it holds the fixed
\* sentinel, otherwise the rendered transcript of the control channel; the
\* team transcripts are joined in team order with the fixed separator.
C32_StatusSlots ==
  \A h \in Requesting :
    LET r == handler[h]
        slot == r.prompt.control_transcript
    IN /\ slot # <<>>
       /\ r.control \in {"none", "wrongType"} =>
            slot = <<[line |-> "[No control channel transcript found]"]>>
       /\ r.control \in {"quiet", "busy"} =>
            /\ slot[1] = [line |-> "Channel:", of |-> [name |-> "control"]]
            /\ Len(slot) = 5
            /\ (slot[5].line = "[No messages in this channel]") =
                 (r.control = "quiet")
       /\ TeamOrder(r.prompt.team_transcripts, r.teamChannels)

\* C32 witness: two team channels, one of them silent, and no control channel.
C32_Witness ==
  \E h \in Requesting :
    /\ handler[h].teamChannels = <<1, 3>>
    /\ handler[h].control = "none"
    /\ Len(handler[h].prompt.team_transcripts) = 13
    /\ handler[h].prompt.control_transcript[1].line =
         "[No control channel transcript found]"

\* Every placeholder written in the template has a key in the mapping.
AllMapped(template, values) ==
  Unresolved(template) \subseteq MappedAt(template, values)

\* The template with each placeholder replaced by its key's value as it
\* stands, in one pass: what is inserted is not looked at again.
RECURSIVE Literal(_, _, _)
Literal(text, i, values) ==
  IF i > Len(text) THEN <<>>
  ELSE LET keys == {k \in 1..Len(values) : KeyEnd(text, i, values[k].key) > 0}
       IN IF keys = {}
            THEN <<text[i]>> \o Literal(text, i + 1, values)
            ELSE LET k == CHOOSE k \in keys : TRUE
                 IN values[k].value
                      \o Literal(text, KeyEnd(text, i, values[k].key) + 1, values)

\* C33: when every placeholder written in the template has a key in the
\* mapping, renderTemplate returns, whatever the values hold: each value is
\* inserted as it stands, placeholder syntax in it is neither substituted
\* by a later key nor reported as unresolved.
C33_ValuesLiteral ==
  (renderOut # NoRendered /\ AllMapped(renderIn.template, renderIn.values)) =>
    renderOut = [state |-> "returned",
                 out |-> Literal(renderIn.template, 1, renderIn.values)]

\* The entries of the log whose check-in was broadcast: a delivery was tried.
Broadcast == {k \in 1..Len(issued) : issued[k].tried}

\* C34: a check-in trigger that ends without attempting a delivery leaves the
\* counter as it was: of two check-ins broadcast in one process lifetime with
\* no broadcast between them, the later is numbered one more than the earlier,
\* whatever triggers ended unsent between them.
C34_UnsentKeepsCounter ==
  \A i, k \in Broadcast :
    (/\ i < k
     /\ issued[i].epoch = issued[k].epoch
     /\ \A j \in Broadcast : ~(i < j /\ j < k)) =>
      issued[k].n = issued[i].n + 1

Visible(text) == \E i \in 1..Len(text) : text[i] # "\n"

StandbyActed ==
  \/ standby.pc \notin {"idle", "ignored"}
  \/ standby.posts # <<>>
  \/ standby.asked > 0

\* The message is a member's, mentions the bot and comes from a text channel
\* of a guild whose name is team- and one or two digits.
FromTeamMember(m) ==
  /\ ~m.authorBot
  /\ m.mentionsBot
  /\ m.inGuild
  /\ m.channelType = "GuildText"
  /\ m.channelName \in {<<"team-", "1">>, <<"TEAM-", "1", "1">>}

\* C36: the standby handler posts nothing and calls no external service
\* unless the message is written by a non-bot user, mentions the bot and was
\* sent in a guild text channel matching the team pattern; a message the bot
\* wrote itself is returned from at once.
C36_OnlyTeamMentions ==
  /\ StandbyActed => FromTeamMember(standby.message)
  /\ (standby.message # NoMessage /\ standby.message.authorBot) =>
       /\ standby.pc = "ignored"
       /\ standby.posts = <<>>
       /\ standby.asked = 0

\* C36 witness: a bot's message that mentions the bot in a team channel, as
\* a reply of the bot itself may, has been handled and nothing was done.
C36_Witness ==
  /\ standby.pc = "ignored"
  /\ standby.message.authorBot
  /\ standby.message.clientUser
  /\ standby.message.mentionsBot
  /\ standby.message.inGuild
  /\ standby.message.channelType = "GuildText"
  /\ standby.message.channelName = <<"team-", "1">>
  /\ standby.posts = <<>>
  /\ standby.asked = 0
====
